---- MODULE Spec2Model ----
(***************************************************************************)
(* State-machine model of the per-chat playback engine of zuchzub/Go:      *)
(* the chat queue store (pkg/core/cache/chat_cache.go), the playback       *)
(* coordinator (pkg/vc/helpers.go: PlayNext, playSong, PlayMedia, Stop),   *)
(* the command handlers that drive it (play, skip, stop, loop) and the     *)
(* play admission filter (pkg/handlers/filters.go).                        *)
(*                                                                         *)
(* Every handler runs on its own goroutine; the store takes its mutex per  *)
(* call, so one store call is one atomic step and a handler is a sequence  *)
(* of steps that other handlers may interleave with.                       *)
(***************************************************************************)
EXTENDS Integers, Sequences, FiniteSets, TLC

\* ---------------------------------------------------------------- bounds
\* Number of tracks the play requests of one behaviour allocate in all,
\* when handlers overlap and when they run one at a time.
MaxTracks == 2
MaxSeqTracks == 3
\* Largest argument the modelled /loop commands pass.
MaxLoopArg == 2
\* Number of distinct catalog track ids offered to play requests.
NumTrackIDs == 2
\* Longest playlist a play request resolves to.
MaxPlaylist == 3
\* Number of tracks the play requests allocate in all when the chat also
\* gets remove and seek commands.
MaxControlTracks == 3
\* Largest argument the modelled /remove commands pass.
MaxRemoveArg == 4
\* Largest played time the engine reports to a seek, in seconds.
MaxPlayed == 1
\* The durations of the tracks sought in run from MinSeek to this many
\* seconds more.
MaxDurationOver == 2
\* Keys and values of the TTL cache, its default TTL, the longest custom
\* TTL and the last instant of the clock.
NumKeys == 2
NumValues == 2
DefaultTTL == 2
MaxTTL == 1
MaxTime == 3
\* Number of tracks allocated in all when the queue is filled to its cap:
\* one more than the cap.
MaxCapTracks == 11
\* Number of tracks allocated in all when play requests go past the cap.
MaxOverTracks == 12
\* Texts an Edit is asked for besides the text of the first reply, and the
\* last instant of the clock the edits are followed to, in quarter seconds.
NumTexts == 2
MaxEditTime == 4
\* Number of distinct catalog track ids offered to two chats.
NumSharedIDs == 3
\* Minutes the roster cache is followed for.
MaxRosterTime == 20
\* Minutes the settings cache is followed for.
MaxSettingsTime == 21

\* ------------------------------------------------------------- constants
\* /loop accepts 0..LoopMax.
LoopMax == 10

Procs == {"g1", "g2"}
TrackIDs == 1..NumTrackIDs
Users == {"ua", "ub"}
NoPath == 0
NoOid == 0

\* A track object. oid is the identity of the *CachedTrack allocation
\* (the queue holds pointers), id is TrackID, loop is Loop and path is
\* FilePath (NoPath is the empty string).
NoTrack == [oid |-> NoOid, id |-> 0, loop |-> 0, path |-> NoPath]

VARIABLES
    present,    \* chatCache has an entry for the chat
    active,     \* ChatData.IsActive
    queue,      \* ChatData.Queue
    files,      \* paths that exist in the downloads directory
    engine,     \* what the assistant's call is streaming, and from which second
    pc,         \* position of each goroutine
    loc,        \* locals of each goroutine
    notice,     \* the playback sessions so far and their "queue_finished" messages
    allocated,  \* *CachedTrack allocations so far
    limit,      \* allocations the behaviour is explored up to
    play_mode,   \* chats.play_mode of the chat
    admin_mode, \* chats.admin_mode of the chat
    authUsers,  \* chats.auth_users of the chat
    roster,     \* administrators of the chat on the platform
    adminCache, \* AdminCache entry of the chat
    botStatus,  \* what the platform's roster says about the bot itself
    data,       \* Cache.data of a TTL cache
    now,        \* the clock time.Now() reads
    lastSet,    \* per key, the last Set if no Delete or Clear came after it
    reads,      \* per goroutine, the Get it is in or has finished
    adminExpiration, \* CacheItem.Expiration of the AdminCache entry of the chat
    lookup,     \* per goroutine, the roster lookup it is in or has finished
    lastRead,   \* the list non-forced roster reads return in the current window
    failed,     \* the last failed roster fetch not yet invalidated
    assistant,  \* chats.assistant of the chat, "" when null or unset
    settingsCache, \* Database.ChatCache entry of the chat
    bound,      \* the assistant getClientName last returned, "" once removed
    lastWrite,  \* the last auth-user write, while nothing else was written
    membership, \* statusCache: per assistant, its cached status in the chat
    lastEvent,  \* the last participant event handled for an assistant
    pm,         \* the PlayMedia call in progress or finished
    chatCache,  \* ChatCacher.chatCache of two chats that share the downloads
    req,        \* the catalog call in progress or finished
    updater,    \* a statusUpdater and the Edit calls on it
    download    \* the direct downloads of one URL and the two file names

storeVars == <<present, active, queue>>

filterVars == <<play_mode, admin_mode, authUsers, roster, adminCache, botStatus>>
ttlVars == <<data, now, lastSet, reads>>
ttlDataVars == <<data, lastSet, reads>>
rosterVars == <<adminExpiration, lookup, lastRead, failed>>
settingsVars == <<assistant, settingsCache, bound, lastWrite>>
assistantVars == <<membership, lastEvent, pm>>
moreVars == <<chatCache, req, updater, download>>
sideVars == <<ttlVars, rosterVars, settingsVars, assistantVars, moreVars>>
restVars == <<allocated, limit, play_mode, admin_mode, authUsers, roster, adminCache,
              botStatus, sideVars>>
vars == <<present, active, queue, files, engine, pc, loc, notice, allocated, limit,
          play_mode, admin_mode, authUsers, roster, adminCache, botStatus,
          data, now, lastSet, reads, adminExpiration, lookup, lastRead, failed,
          assistant, settingsCache, bound, lastWrite, membership, lastEvent, pm,
          chatCache, req, updater, download>>

\* ------------------------------------------------------ chat queue store

\* The path a track is materialized at: the downloader's output template
\* is keyed by the track id.
PathOf(id) == id

IsActive == present /\ active

GetQueueLength == IF present THEN Len(queue) ELSE 0

GetLoopCount == IF ~present \/ Len(queue) = 0 THEN 0 ELSE queue[1].loop

GetPlayingTrack == IF ~present \/ Len(queue) = 0 THEN NoTrack ELSE queue[1]

GetUpcomingTrack == IF ~present \/ Len(queue) < 2 THEN NoTrack ELSE queue[2]

GetTrackIfExists(id) ==
    IF present /\ \E i \in 1..Len(queue) : queue[i].id = id
    THEN queue[CHOOSE i \in 1..Len(queue) :
                  /\ queue[i].id = id
                  /\ \A j \in 1..(i-1) : queue[j].id # id]
    ELSE NoTrack

\* Paths of the tracks of q that have a FilePath.
PathsOf(q) == {q[i].path : i \in {j \in 1..Len(q) : q[j].path # NoPath}}

AddSong(song) ==
    /\ present' = TRUE
    /\ active' = IF present THEN active ELSE TRUE
    /\ queue' = Append(queue, song)

SetActive(a) ==
    /\ present' = TRUE
    /\ active' = a
    /\ UNCHANGED queue

SetLoopCount(n) ==
    /\ UNCHANGED <<present, active>>
    /\ queue' = IF ~present \/ Len(queue) = 0
                THEN queue
                ELSE [queue EXCEPT ![1].loop = n]

\* RemoveCurrentSong that leaves the file of the removed track on disk.
RemoveCurrentSongKeepsFile ==
    /\ UNCHANGED <<present, active, files>>
    /\ queue' = IF ~present \/ Len(queue) = 0 THEN queue ELSE Tail(queue)

\* RemoveCurrentSong(chatID, true)
RemoveCurrentSong ==
    /\ UNCHANGED <<present, active>>
    /\ IF ~present \/ Len(queue) = 0
       THEN UNCHANGED <<queue, files>>
       ELSE /\ queue' = Tail(queue)
            /\ files' = IF queue[1].path # NoPath
                        THEN files \ {queue[1].path}
                        ELSE files

ClearChat ==
    /\ present' = FALSE
    /\ active' = FALSE
    /\ queue' = <<>>
    /\ files' = IF present THEN files \ PathsOf(queue) ELSE files

\* RemoveTrack(chatID, index): index counts from 0; the result says whether
\* an entry was removed.
RemoveTrackOk(index) == present /\ index >= 0 /\ index < Len(queue)

RemoveTrack(index) ==
    /\ UNCHANGED <<present, active>>
    /\ queue' = IF RemoveTrackOk(index)
                THEN SubSeq(queue, 1, index) \o SubSeq(queue, index + 2, Len(queue))
                ELSE queue

\* song.FilePath = p, written through the pointer: the queue entry that is
\* this allocation (if it is still queued) sees the write.
WritePath(q, oid, p) ==
    [i \in 1..Len(q) |-> IF q[i].oid = oid THEN [q[i] EXCEPT !.path = p] ELSE q[i]]

\* -------------------------------------------------------------- goroutines

Idle(p) == pc[p] = "idle"

\* The locals of a handler that is not a seek: the engine is asked to play
\* from the start.
NoSeek == [seekTime |-> 0, played |-> 0, duration |-> 0, toSeek |-> 0]

\* Locals of a goroutine. op is the handler it runs, song the *CachedTrack
\* it holds, loop and isActive the values it read from the store, rest the
\* playlist tracks still to add (first: none added yet), noSong whether Stop
\* was entered from handleNoSong, session the playback session PlayNext
\* found finished, user the sender, mode the play or admin mode, admins the
\* administrators and bot the bot's own status that the filter read
\* ("unknown" when the lookup failed); trackNum is the argument of /remove,
\* queue the copy of the queue its handler took, and seek the argument of
\* /seek with the played time and duration its handler read and the
\* position it asked the engine for; err is what PlayNext returned to the
\* play_skip callback ("nil" or "err") and reply what the callback answered.
\* The remaining fields record what the handler did: replies
\* counts the filter's replies to the sender, plays and stops its calls of
\* the engine, dlFailed the tracks whose materialization failed, q0 and a0
\* the queue and IsActive when it started, asked the allocations its play
\* request resolved to, solo whether no other handler ran on the chat
\* meanwhile, out how it ended.
NoLoc == [op |-> "none", user |-> "none", mode |-> "none", admins |-> {},
          bot |-> "none", trackNum |-> 0, queue |-> <<>>, seek |-> NoSeek,
          song |-> NoTrack,
          loop |-> 0, isActive |-> FALSE, rest |-> <<>>, first |-> FALSE,
          noSong |-> FALSE, session |-> 0, replies |-> 0, plays |-> 0, stops |-> 0,
          dlFailed |-> {}, q0 |-> <<>>, a0 |-> FALSE, asked |-> <<>>,
          solo |-> FALSE, out |-> "none", err |-> "none", reply |-> "none"]

\* The pointer a goroutine holds to a queued track.
Ref(t) == [t EXCEPT !.loop = 0]

\* The record of what a handler did is kept only while it runs alone on
\* the chat: l without that record.
Forget(l) == [l EXCEPT !.solo = FALSE, !.q0 = <<>>, !.a0 = FALSE, !.replies = 0,
                       !.plays = 0, !.stops = 0, !.dlFailed = {}, !.asked = <<>>]

\* A handler starts on goroutine p: the handlers already running are no
\* longer alone on the chat.
Begin(p, l, first) ==
    /\ Idle(p)
    /\ pc' = [pc EXCEPT ![p] = first]
    /\ loc' = [q \in Procs |->
                 IF q = p
                 THEN IF \A r \in Procs \ {p} : pc[r] \in {"idle", "ret"}
                      THEN [l EXCEPT !.q0 = queue, !.a0 = IsActive, !.solo = TRUE]
                      ELSE l
                 ELSE Forget(loc[q])]

\* The handler on goroutine p has done its last step; l is its final locals.
Finish(p, l, out) ==
    /\ pc' = [pc EXCEPT ![p] = "ret"]
    /\ loc' = [loc EXCEPT ![p] =
                 IF l.solo
                 THEN [l EXCEPT !.out = out]
                 ELSE [NoLoc EXCEPT !.op = l.op, !.out = out]]

\* The goroutine of a finished handler goes away.
Return(p) ==
    /\ pc[p] = "ret"
    /\ pc' = [pc EXCEPT ![p] = "idle"]
    /\ loc' = [loc EXCEPT ![p] = NoLoc]
    /\ UNCHANGED <<present, active, queue, files, engine, notice, restVars>>

Goto(p, label) == pc' = [pc EXCEPT ![p] = label]

\* PlayNext returns err to its caller. Of its callers only the play_skip
\* callback looks at the error: it answers "skip_fail" on an error and
\* "track_skipped" otherwise.
Returns(l, err) ==
    IF l.op = "cbSkip"
    THEN [l EXCEPT !.err = err,
                   !.reply = IF err = "nil" THEN "track_skipped" ELSE "skip_fail"]
    ELSE l

\* l with one more reply, play or stop on record.
Count(l, f) == IF l.solo THEN [l EXCEPT ![f] = @ + 1] ELSE l

\* loc after goroutine p's locals become l and the FilePath of allocation
\* oid becomes path in every goroutine that holds the pointer.
LocWritePath(p, l, oid, path) ==
    [q \in Procs |->
        LET lq == IF q = p THEN l ELSE loc[q]
        IN IF lq.song.oid = oid /\ oid # NoOid
           THEN [lq EXCEPT !.song.path = path]
           ELSE lq]

\* ------------------------------------------------------------- PlayNext

\* loop := GetLoopCount(chatID)
PlayNext(p) ==
    /\ pc[p] = "PlayNext"
    /\ loc' = [loc EXCEPT ![p].loop = GetLoopCount]
    /\ Goto(p, IF GetLoopCount > 0 THEN "pn_setloop" ELSE "pn_next")
    /\ UNCHANGED <<present, active, queue, files, engine, notice, restVars>>

\* PlayNextSetLoop without the decrement.
PlayNextSetLoopKeepsCount(p) ==
    /\ pc[p] = "pn_setloop"
    /\ SetLoopCount(loc[p].loop)
    /\ Goto(p, "pn_cur")
    /\ UNCHANGED <<files, engine, loc, notice, restVars>>

\* SetLoopCount(chatID, loop-1)
PlayNextSetLoop(p) ==
    /\ pc[p] = "pn_setloop"
    /\ SetLoopCount(loc[p].loop - 1)
    /\ Goto(p, "pn_cur")
    /\ UNCHANGED <<files, engine, loc, notice, restVars>>

\* currentsSong := GetPlayingTrack(chatID); play it again unless nil
PlayNextCurrent(p) ==
    /\ pc[p] = "pn_cur"
    /\ IF GetPlayingTrack # NoTrack
       THEN /\ loc' = [loc EXCEPT ![p].song = Ref(GetPlayingTrack)]
            /\ Goto(p, "playSong")
       ELSE /\ UNCHANGED loc
            /\ Goto(p, "pn_next")
    /\ UNCHANGED <<present, active, queue, files, engine, notice, restVars>>

\* nextSong := GetUpcomingTrack(chatID)
PlayNextUpcoming(p) ==
    /\ pc[p] = "pn_next"
    /\ IF GetUpcomingTrack # NoTrack
       THEN /\ loc' = [loc EXCEPT ![p].song = Ref(GetUpcomingTrack)]
            /\ Goto(p, "pn_pop")
       ELSE /\ loc' = [loc EXCEPT ![p].song = NoTrack]
            /\ Goto(p, "pn_poplast")
    /\ UNCHANGED <<present, active, queue, files, engine, notice, restVars>>

\* PlayNextPop without the pop.
PlayNextPopKeepsHead(p) ==
    /\ pc[p] = "pn_pop"
    /\ Goto(p, "playSong")
    /\ UNCHANGED <<present, active, queue, files, engine, loc, notice, restVars>>

\* RemoveCurrentSong(chatID, true); return playSong(chatID, nextSong)
PlayNextPop(p) ==
    /\ pc[p] = "pn_pop"
    /\ RemoveCurrentSong
    /\ Goto(p, "playSong")
    /\ UNCHANGED <<engine, loc, notice, restVars>>

\* RemoveCurrentSong(chatID, true); return handleNoSong(chatID). The
\* session this ends is the chat's current or last one.
PlayNextPopLast(p) ==
    /\ pc[p] = "pn_poplast"
    /\ RemoveCurrentSong
    /\ loc' = [loc EXCEPT ![p].noSong = TRUE, ![p].session = notice.session]
    /\ Goto(p, "Stop")
    /\ UNCHANGED <<engine, notice, restVars>>

\* ------------------------------------------------------------- playSong

\* playSong returning the download's error instead of running PlayNext.
playSongReturnsDownloadError(p) ==
    /\ pc[p] = "playSong"
    /\ \E msg \in {"sent", "failed"}, dl \in {"ok", "failed"} :
         LET song == loc[p].song IN
         IF msg = "failed"
         THEN /\ dl = "ok"
              /\ Finish(p, Returns(loc[p], "err"), "noticeFailed")
              /\ UNCHANGED <<queue, files>>
         ELSE IF song.path # NoPath
         THEN /\ dl = "ok"
              /\ Goto(p, "PlayMedia")
              /\ UNCHANGED <<loc, queue, files>>
         ELSE IF dl = "failed"
         THEN /\ Finish(p, [loc[p] EXCEPT !.dlFailed =
                                   IF loc[p].solo THEN @ \cup {song.oid} ELSE @],
                        "downloadFailed")
              /\ UNCHANGED <<queue, files>>
         ELSE /\ Goto(p, "PlayMedia")
              /\ queue' = WritePath(queue, song.oid, PathOf(song.id))
              /\ loc' = LocWritePath(p, loc[p], song.oid, PathOf(song.id))
              /\ files' = files \cup {PathOf(song.id)}
    /\ UNCHANGED <<present, active, engine, notice, restVars>>

\* The "downloading" notice, then downloadAndPrepareSong. A notice that
\* cannot be sent ends playSong; a track with a FilePath needs no download;
\* a failed download runs PlayNext again; a download writes song.FilePath.
playSong(p) ==
    /\ pc[p] = "playSong"
    /\ \E msg \in {"sent", "failed"}, dl \in {"ok", "failed"} :
         LET song == loc[p].song IN
         IF msg = "failed"
         THEN /\ dl = "ok"
              /\ Finish(p, Returns(loc[p], "err"), "noticeFailed")
              /\ UNCHANGED <<queue, files>>
         ELSE IF song.path # NoPath
         THEN /\ dl = "ok"
              /\ Goto(p, "PlayMedia")
              /\ UNCHANGED <<loc, queue, files>>
         ELSE IF dl = "failed"
         THEN /\ Goto(p, "PlayNext")
              /\ loc' = [loc EXCEPT ![p].dlFailed =
                                        IF loc[p].solo THEN @ \cup {song.oid} ELSE @]
              /\ UNCHANGED <<queue, files>>
         ELSE /\ Goto(p, "PlayMedia")
              /\ queue' = WritePath(queue, song.oid, PathOf(song.id))
              /\ loc' = LocWritePath(p, loc[p], song.oid, PathOf(song.id))
              /\ files' = files \cup {PathOf(song.id)}
    /\ UNCHANGED <<present, active, engine, notice, restVars>>

\* ------------------------------------------------------------ PlayMedia

\* The caller of PlayMedia reports and returns. playSong edits the error
\* of a failed PlayMedia into its "downloading" message and returns the
\* error of that edit: nil when the edit went through.
AfterPlayMedia(p, l, out) ==
    \E edit \in {"sent", "failed"} :
        /\ (out = "played" \/ l.op # "cbSkip") => edit = "sent"
        /\ Finish(p, Returns(l, IF out = "played" \/ edit = "sent"
                                THEN "nil" ELSE "err"), out)

\* joinAssistant(chatID, ...): a failure clears the chat and is returned.
PlayMediaJoin(p) ==
    /\ pc[p] = "PlayMedia"
    /\ \E join \in {"ok", "failed"} :
         IF join = "ok"
         THEN /\ Goto(p, "pm_play")
              /\ UNCHANGED <<present, active, queue, files, loc>>
         ELSE /\ ClearChat
              /\ AfterPlayMedia(p, loc[p], "joinFailed")
    /\ UNCHANGED <<engine, notice, restVars>>

\* PlayMediaPlay returning the engine's error without clearing the chat.
PlayMediaPlayKeepsChat(p) ==
    /\ pc[p] = "pm_play"
    /\ \E play \in {"ok", "failed"} :
         LET l == Count(loc[p], "plays") IN
         IF play = "ok"
         THEN /\ engine' = [cur |-> loc[p].song.oid, path |-> loc[p].song.path,
                            start |-> loc[p].seek.toSeek, ended |-> FALSE]
              /\ AfterPlayMedia(p, l, "played")
         ELSE /\ AfterPlayMedia(p, l, "playFailed")
              /\ UNCHANGED engine
    /\ UNCHANGED <<present, active, queue, files, notice, restVars>>

\* call.Play(chatID, mediaDesc): a failure clears the chat and is returned.
PlayMediaPlay(p) ==
    /\ pc[p] = "pm_play"
    /\ \E play \in {"ok", "failed"} :
         LET l == Count(loc[p], "plays") IN
         IF play = "ok"
         THEN /\ engine' = [cur |-> loc[p].song.oid, path |-> loc[p].song.path,
                            start |-> loc[p].seek.toSeek, ended |-> FALSE]
              /\ AfterPlayMedia(p, l, "played")
              /\ UNCHANGED <<present, active, queue, files>>
         ELSE /\ ClearChat
              /\ AfterPlayMedia(p, l, "playFailed")
              /\ UNCHANGED engine
    /\ UNCHANGED <<notice, restVars>>

\* ----------------------------------------------------- Stop, handleNoSong

\* Stop: cache.ChatCache.ClearChat(chatId, true)
Stop(p) ==
    /\ pc[p] = "Stop"
    /\ ClearChat
    /\ Goto(p, "stop_call")
    /\ UNCHANGED <<engine, loc, notice, restVars>>

\* Stop: call.Stop(chatId), its error ignored. The stop handler then
\* replies and returns; handleNoSong goes on to its notice.
StopCall(p) ==
    /\ pc[p] = "stop_call"
    /\ engine' = [cur |-> NoOid, path |-> NoPath, start |-> 0, ended |-> FALSE]
    /\ LET l == Count(loc[p], "stops") IN
       IF loc[p].noSong
       THEN Goto(p, "hns_notify") /\ loc' = [loc EXCEPT ![p] = l]
       ELSE Finish(p, l, "stopped")
    /\ UNCHANGED <<present, active, queue, files, notice, restVars>>

\* handleNoSong: SendMessage(chatID, "queue_finished"); return nil.
\* notice records the sessions that skip and stream-end handlers sent the
\* message for, and whether one of them got it twice.
handleNoSong(p) ==
    /\ pc[p] = "hns_notify"
    /\ notice' = IF loc[p].op \in {"skip", "streamEnd"}
                 THEN [notice EXCEPT !.sent = @ \cup {loc[p].session},
                                     !.twice = @ \/ loc[p].session \in notice.sent]
                 ELSE notice
    /\ Finish(p, Returns(loc[p], "nil"), "finished")
    /\ UNCHANGED <<present, active, queue, files, engine, restVars>>

\* ------------------------------------------------- stream end, skip, stop

\* The engine reports the end of the audio stream it was given; the
\* OnStreamEnd callback runs PlayNext.
OnStreamEnd(p) ==
    /\ engine.cur # NoOid
    /\ ~engine.ended
    /\ engine' = [engine EXCEPT !.ended = TRUE]
    /\ Begin(p, [NoLoc EXCEPT !.op = "streamEnd"], "PlayNext")
    /\ UNCHANGED <<present, active, queue, files, notice, restVars>>

\* /skip from a sender the adminMode filter admits is dispatched to
\* skipHandler.
SkipCommand(p) ==
    /\ Begin(p, [NoLoc EXCEPT !.op = "skip"], "skip_check")
    /\ UNCHANGED <<present, active, queue, files, engine, notice, restVars>>

\* skipHandler: reply "no_track_playing" unless IsActive, else PlayNext.
skipHandler(p) ==
    /\ pc[p] = "skip_check"
    /\ IF IsActive
       THEN Goto(p, "PlayNext") /\ UNCHANGED loc
       ELSE Finish(p, loc[p], "notPlaying")
    /\ UNCHANGED <<present, active, queue, files, engine, notice, restVars>>

\* The skip button of the play keyboard is pressed: playCallbackHandler
\* with play_skip.
PlaySkipCallback(p) ==
    /\ Begin(p, [NoLoc EXCEPT !.op = "cbSkip"], "cb_check")
    /\ UNCHANGED <<present, active, queue, files, engine, notice, restVars>>

\* playCallbackHandler: "no_track_playing" unless IsActive
playCallbackHandler(p) ==
    /\ pc[p] = "cb_check"
    /\ IF IsActive
       THEN Goto(p, "cb_track") /\ UNCHANGED loc
       ELSE Finish(p, loc[p], "no_track_playing")
    /\ UNCHANGED <<present, active, queue, files, engine, notice, restVars>>

\* playCallbackHandler: "no_track_playing" if GetPlayingTrack is nil, else
\* PlayNext, whose error decides the answer.
playCallbackHandlerSkip(p) ==
    /\ pc[p] = "cb_track"
    /\ IF GetPlayingTrack # NoTrack
       THEN Goto(p, "PlayNext") /\ UNCHANGED loc
       ELSE Finish(p, loc[p], "no_track_playing")
    /\ UNCHANGED <<present, active, queue, files, engine, notice, restVars>>

\* /stop from a sender the adminMode filter admits is dispatched to
\* stopHandler.
StopCommand(p) ==
    /\ Begin(p, [NoLoc EXCEPT !.op = "stop"], "stop_check")
    /\ UNCHANGED <<present, active, queue, files, engine, notice, restVars>>

\* stopHandler: reply "no_track_playing" unless IsActive, else Stop.
stopHandler(p) ==
    /\ pc[p] = "stop_check"
    /\ IF IsActive
       THEN Goto(p, "Stop") /\ UNCHANGED loc
       ELSE Finish(p, loc[p], "notPlaying")
    /\ UNCHANGED <<present, active, queue, files, engine, notice, restVars>>

\* ------------------------------------------------------- the play filter

Modes == {"admins", "auth", "everyone"}

\* chats.admin_mode is a string of the chat's document: one of the modes
\* the settings handler writes, or anything else the document holds.
AdminModes == Modes \cup {"other"}

\* What the administrator roster says about the bot: absent from it, an
\* administrator with or without the invite-users right, or the creator
\* (whose Rights are nil).
BotStates == {"absent", "admin", "adminNoInvite", "creator"}

\* AdminCache without an entry for the chat.
NoEntry == [users |-> {}, bot |-> "miss"]

\* The cached list of a failed lookup.
NegativeRoster == [users |-> {}, bot |-> "absent"]

\* Texts are sequences of characters.
NotAdminErr ==
    <<"u", "s", "e", "r", " ", "1", " ", "i", "s", " ", "n", "o", "t",
      " ", "a", "n", " ", "a", "d", "m", "i", "n", "i", "s", "t", "r",
      "a", "t", "o", "r", " ", "i", "n", " ", "c", "h", "a", "t", " ",
      "1">>
FetchErr ==
    <<"r", "p", "c", " ", "e", "r", "r", "o", "r">>
NotAdminNeedle ==
    <<"i", "s", " ", "n", "o", "t", " ", "a", "n", " ", "a", "d", "m",
      "i", "n", " ", "i", "n", " ", "c", "h", "a", "t">>

\* strings.Contains
Contains(hay, needle) ==
    \E k \in 0..(Len(hay) - Len(needle)) :
        \A i \in 1..Len(needle) : hay[k + i] = needle[i]

\* GetAdmins(client, chatID, false): the cached list, else the platform's
\* list (cached for an hour) or the platform's error. fetch is what the
\* platform answers if it is asked.
GetAdmins(fetch) ==
    IF adminCache # NoEntry
    THEN [err |-> <<>>, admins |-> adminCache, cache |-> adminCache]
    ELSE IF fetch = "ok"
    THEN [err |-> <<>>, admins |-> [users |-> roster, bot |-> botStatus],
          cache |-> [users |-> roster, bot |-> botStatus]]
    ELSE [err |-> FetchErr, admins |-> NegativeRoster, cache |-> adminCache]

\* GetUserAdmin(client, chatID, botID, false): the bot's entry in the list;
\* a failed lookup caches the empty list for ten minutes.
GetUserAdmin(fetch) ==
    LET r == GetAdmins(fetch) IN
    IF r.err # <<>>
    THEN [err |-> r.err, bot |-> "absent", cache |-> NegativeRoster]
    ELSE IF r.admins.bot = "absent"
    THEN [err |-> NotAdminErr, bot |-> "absent", cache |-> r.cache]
    ELSE [err |-> <<>>, bot |-> r.admins.bot, cache |-> r.cache]

\* GetChatAdmins(chatID): the ids of the cached list c, empty without one.
GetChatAdmins(c) == IF c # NoEntry THEN c.users ELSE {}

\* Database.IsAuthUser, c being the cached list
IsAuthUser(c, u) == u \in GetChatAdmins(c) \/ u \in authUsers

\* The bot-side prechecks of playMode: the reply they refuse with, "pass"
\* otherwise.
BotPrecheck(r) ==
    IF r.err # <<>>
    THEN IF Contains(r.err, NotAdminNeedle)
         THEN "filter_bot_not_admin"
         ELSE "filter_bot_admin_status_failed"
    ELSE IF r.bot \notin {"admin", "adminNoInvite", "creator"}
    THEN "filter_bot_not_admin_reload"
    ELSE IF r.bot = "adminNoInvite"
    THEN "filter_bot_no_invite_permission"
    ELSE "pass"

\* What the filter learned about the bot from the result r of GetUserAdmin.
BotRead(r) == IF r.err = FetchErr THEN "unknown" ELSE r.bot

\* The user check of playMode for a mode other than everyone, given the
\* result r of GetAdmins.
UserCheck(mode, r, u) ==
    IF u \notin r.admins.users
    THEN IF mode = "auth" THEN IsAuthUser(r.cache, u) ELSE FALSE
    ELSE TRUE

\* /play is dispatched: the filter runs first, on the handler's goroutine.
PlayCommand(p, u) ==
    /\ Begin(p, [NoLoc EXCEPT !.op = "play", !.user = u], "playMode")
    /\ UNCHANGED <<present, active, queue, files, engine, notice, restVars>>

\* playMode up to GetPlayMode: the bot-side prechecks, each refusal with
\* its reply; play mode everyone admits at once.
playMode(p) ==
    /\ pc[p] = "playMode"
    /\ \E fetch \in {"ok", "failed"} :
         LET r == GetUserAdmin(fetch)
             pre == BotPrecheck(r)
         IN /\ adminCache = NoEntry \/ fetch = "ok"
            /\ adminCache' = r.cache
            /\ IF pre # "pass"
               THEN Finish(p, Count([loc[p] EXCEPT !.bot = BotRead(r)], "replies"),
                           pre)
               ELSE /\ loc' = [loc EXCEPT ![p].mode = play_mode,
                                          ![p].bot = BotRead(r)]
                    /\ Goto(p, IF play_mode # "everyone"
                               THEN "pm_admins" ELSE "handlePlay")
    /\ UNCHANGED <<present, active, queue, files, engine, notice,
                   allocated, limit, play_mode, admin_mode, authUsers, roster, botStatus,
                   sideVars>>

\* playMode from GetAdmins on: a failed lookup refuses without a reply; a
\* sender who is neither an administrator nor (in mode auth) authorized is
\* refused with a reply.
playModeUser(p) ==
    /\ pc[p] = "pm_admins"
    /\ \E fetch \in {"ok", "failed"} :
         LET r == GetAdmins(fetch) IN
         /\ adminCache = NoEntry \/ fetch = "ok"
         /\ adminCache' = r.cache
         /\ LET l == [loc[p] EXCEPT !.admins = r.admins.users] IN
            IF r.err # <<>>
            THEN Finish(p, l, "rosterFailed")
            ELSE IF UserCheck(l.mode, r, l.user)
            THEN Goto(p, "handlePlay") /\ loc' = [loc EXCEPT ![p] = l]
            ELSE Finish(p, Count(l, "replies"), "filter_not_authorized_command")
    /\ UNCHANGED <<present, active, queue, files, engine, notice,
                   allocated, limit, play_mode, admin_mode, authUsers, roster, botStatus,
                   sideVars>>

\* Database.IsAdmin, c being the cached list
IsAdmin(c, u) == u \in GetChatAdmins(c)

\* /stop is dispatched with its filter: adminMode runs first, on the
\* handler's goroutine.
AdminCommand(p, u) ==
    /\ Begin(p, [NoLoc EXCEPT !.op = "stop", !.user = u], "adminMode")
    /\ UNCHANGED <<present, active, queue, files, engine, notice, restVars>>

\* adminMode up to GetAdminMode: the bot-side prechecks, each refusal with
\* its reply.
adminMode(p) ==
    /\ pc[p] = "adminMode"
    /\ \E fetch \in {"ok", "failed"} :
         LET r == GetUserAdmin(fetch)
             pre == BotPrecheck(r)
         IN /\ adminCache = NoEntry \/ fetch = "ok"
            /\ adminCache' = r.cache
            /\ IF pre # "pass"
               THEN Finish(p, Count([loc[p] EXCEPT !.bot = BotRead(r)], "replies"),
                           pre)
               ELSE /\ loc' = [loc EXCEPT ![p].mode = admin_mode,
                                          ![p].bot = BotRead(r)]
                    /\ Goto(p, "am_user")
    /\ UNCHANGED <<present, active, queue, files, engine, notice,
                   allocated, limit, play_mode, admin_mode, authUsers, roster, botStatus,
                   sideVars>>

\* adminMode from GetAdminMode on: everyone admits; admins asks IsAdmin and
\* auth asks IsAuthUser, both of the cached list; any other mode refuses.
adminModeUser(p) ==
    /\ pc[p] = "am_user"
    /\ LET l == [loc[p] EXCEPT !.admins = GetChatAdmins(adminCache)]
           ok == \/ l.mode = "everyone"
                 \/ l.mode = "admins" /\ IsAdmin(adminCache, l.user)
                 \/ l.mode = "auth" /\ IsAuthUser(adminCache, l.user)
       IN IF ok
          THEN Goto(p, "stop_check") /\ loc' = [loc EXCEPT ![p] = l]
          ELSE Finish(p, Count(l, "replies"),
                      IF l.mode = "admins" THEN "filter_not_admin"
                                           ELSE "filter_not_authorized")
    /\ UNCHANGED <<present, active, queue, files, engine, notice, restVars>>

\* The roster entry leaves the cache: its TTL ran out, or /reload or a
\* participant event cleared it (ClearAdminCache).
ClearAdminCache ==
    /\ adminCache # NoEntry
    /\ adminCache' = NoEntry
    /\ UNCHANGED <<present, active, queue, files, engine, pc, loc, notice,
                   allocated, limit, play_mode, admin_mode, authUsers, roster, botStatus,
                   sideVars>>

\* ------------------------------------------------------ the play handler

\* The queue-full threshold of handlePlay.
QueueCap == 10

\* What a play request resolves to: a single track (a search hit or a
\* one-track URL), a media message, or the tracks of a playlist URL.
\* handleUrl sends a result of exactly one track down the single-track path.
Playlists == {<<>>} \cup UNION {[1..n -> TrackIDs] : n \in 2..MaxPlaylist}

\* notice after a store call that creates the chat entry if there is none:
\* a playback session begins with the entry.
NoticeAfterCreate == IF present THEN notice ELSE [notice EXCEPT !.session = @ + 1]

\* The model explores the requests that allocate limit tracks in all.
Room(n) == allocated + n <= limit

\* saveCache := cache.CachedTrack{...}
NewTrack(oid, id, loop) == [oid |-> oid, id |-> id, loop |-> loop, path |-> NoPath]

\* QueueFull refusing at the cap already.
QueueFullAtCap == GetQueueLength >= QueueCap

\* handlePlay: len(queue) > 10
QueueFull == GetQueueLength > QueueCap

\* handlePlay: refuse a full queue, then resolve the input and branch.
\* kinds are the kinds of single-track input the requests have, lists the
\* playlists their URLs resolve to.
handlePlay(p, kinds, lists) ==
    /\ pc[p] = "handlePlay"
    /\ IF QueueFull
       THEN Finish(p, loc[p], "play_queue_full") /\ UNCHANGED allocated
       ELSE \/ Finish(p, loc[p], "resolveFailed") /\ UNCHANGED allocated
            \/ \E id \in TrackIDs, kind \in kinds :
                 /\ Room(1)
                 /\ allocated' = allocated + 1
                 /\ loc' = [loc EXCEPT ![p].song = NewTrack(allocated + 1, id, 0),
                              ![p].asked = IF loc[p].solo THEN <<allocated + 1>> ELSE <<>>,
                              ![p].user = "none", ![p].mode = "none",
                              ![p].admins = {}, ![p].bot = "none"]
                 /\ Goto(p, IF kind = "media" THEN "hm_dedupe" ELSE "hs_dedupe")
            \/ \E tracks \in lists :
                 /\ Room(Len(tracks))
                 /\ allocated' = allocated + Len(tracks)
                 /\ loc' = [loc EXCEPT ![p].rest =
                                [i \in 1..Len(tracks) |->
                                    NewTrack(allocated + i, tracks[i], 0)],
                              ![p].asked = IF loc[p].solo
                                           THEN [i \in 1..Len(tracks) |-> allocated + i]
                                           ELSE <<>>,
                              ![p].user = "none", ![p].mode = "none",
                              ![p].admins = {}, ![p].bot = "none"]
                 /\ Goto(p, "hmt_start")
    /\ UNCHANGED <<present, active, queue, files, engine, notice, limit, filterVars,
                   sideVars>>

\* handleTextSearch / handleUrl: a track already queued is reported.
handleUrl(p) ==
    /\ pc[p] = "hs_dedupe"
    /\ IF GetTrackIfExists(loc[p].song.id) # NoTrack
       THEN Finish(p, loc[p], "play_track_already_in_queue")
       ELSE Goto(p, "hst_active") /\ UNCHANGED loc
    /\ UNCHANGED <<present, active, queue, files, engine, notice, restVars>>

\* handleMedia: a track already queued is reported.
handleMedia(p) ==
    /\ pc[p] = "hm_dedupe"
    /\ IF GetTrackIfExists(loc[p].song.id) # NoTrack
       THEN Finish(p, loc[p], "play_track_already_in_queue")
       ELSE Goto(p, "hm_active") /\ UNCHANGED loc
    /\ UNCHANGED <<present, active, queue, files, engine, notice, restVars>>

\* handleMedia: on an active chat the track is queued without a file;
\* otherwise the media is downloaded and handleSingleTrack gets the path.
handleMediaActive(p) ==
    /\ pc[p] = "hm_active"
    /\ IF IsActive
       THEN /\ Goto(p, "hst_add")
            /\ UNCHANGED <<loc, files>>
       ELSE \E dl \in {"ok", "failed"} :
              IF dl = "failed"
              THEN /\ Finish(p, loc[p], "play_download_failed")
                   /\ UNCHANGED files
              ELSE /\ loc' = [loc EXCEPT ![p].song.path = PathOf(loc[p].song.id)]
                   /\ files' = files \cup {PathOf(loc[p].song.id)}
                   /\ Goto(p, "hst_active")
    /\ UNCHANGED <<present, active, queue, engine, notice, restVars>>

\* handleSingleTrack: if cache.ChatCache.IsActive(chatId)
handleSingleTrack(p) ==
    /\ pc[p] = "hst_active"
    /\ Goto(p, IF IsActive THEN "hst_add" ELSE "hst_dl")
    /\ UNCHANGED <<present, active, queue, files, engine, loc, notice, restVars>>

\* The active branch: AddSong, report the position.
handleSingleTrackQueue(p) ==
    /\ pc[p] = "hst_add"
    /\ AddSong(loc[p].song)
    /\ notice' = NoticeAfterCreate
    /\ Finish(p, loc[p], "play_added_to_queue")
    /\ UNCHANGED <<files, engine, restVars>>

\* The idle branch: materialize the track unless it came with a file.
handleSingleTrackDownload(p) ==
    /\ pc[p] = "hst_dl"
    /\ IF loc[p].song.path # NoPath
       THEN /\ Goto(p, "hst_setactive")
            /\ UNCHANGED <<loc, files>>
       ELSE \E dl \in {"ok", "failed"} :
              IF dl = "failed"
              THEN /\ Finish(p, loc[p], "play_song_download_failed")
                   /\ UNCHANGED files
              ELSE /\ loc' = [loc EXCEPT ![p].song.path = PathOf(loc[p].song.id)]
                   /\ files' = files \cup {PathOf(loc[p].song.id)}
                   /\ Goto(p, "hst_setactive")
    /\ UNCHANGED <<present, active, queue, engine, notice, restVars>>

\* cache.ChatCache.SetActive(chatId, true)
handleSingleTrackSetActive(p) ==
    /\ pc[p] = "hst_setactive"
    /\ SetActive(TRUE)
    /\ notice' = NoticeAfterCreate
    /\ Goto(p, "hst_addfirst")
    /\ UNCHANGED <<files, engine, loc, restVars>>

\* cache.ChatCache.AddSong(chatId, &saveCache), then PlayMedia
handleSingleTrackAdd(p) ==
    /\ pc[p] = "hst_addfirst"
    /\ AddSong(loc[p].song)
    /\ notice' = NoticeAfterCreate
    /\ Goto(p, "PlayMedia")
    /\ UNCHANGED <<files, engine, loc, restVars>>

\* handleMultipleTracks: isActive := IsActive(chatId)
handleMultipleTracks(p) ==
    /\ pc[p] = "hmt_start"
    /\ loc' = [loc EXCEPT ![p].isActive = IsActive, ![p].first = TRUE]
    /\ Goto(p, "hmt_add")
    /\ UNCHANGED <<present, active, queue, files, engine, notice, restVars>>

\* The loop of handleMultipleTracks: AddSong per track, the first one of
\* an idle chat with Loop = 1; after the last one PlayNext if the chat was
\* idle.
handleMultipleTracksAdd(p) ==
    /\ pc[p] = "hmt_add"
    /\ IF loc[p].rest = <<>>
       THEN /\ IF loc[p].isActive
               THEN Finish(p, loc[p], "play_added_to_queue")
               ELSE Goto(p, "PlayNext") /\ UNCHANGED loc
            /\ UNCHANGED <<present, active, queue, notice>>
       ELSE /\ AddSong([Head(loc[p].rest) EXCEPT
                          !.loop = IF ~loc[p].isActive /\ loc[p].first THEN 1 ELSE 0])
            /\ notice' = NoticeAfterCreate
            /\ loc' = [loc EXCEPT ![p].rest = Tail(@), ![p].first = FALSE]
            /\ UNCHANGED pc
    /\ UNCHANGED <<files, engine, restVars>>

\* ------------------------------------------------------ the loop handler

\* /loop n from a sender the adminMode filter admits is dispatched to
\* loopHandler.
LoopCommand(p, n) ==
    /\ Begin(p, [NoLoc EXCEPT !.op = "loop", !.loop = n], "loop_check")
    /\ UNCHANGED <<present, active, queue, files, engine, notice, restVars>>

\* loopHandler without the range check.
loopHandlerAnyCount(p) ==
    /\ pc[p] = "loop_check"
    /\ IF ~IsActive
       THEN Finish(p, loc[p], "no_track_playing")
       ELSE Goto(p, "loop_set") /\ UNCHANGED loc
    /\ UNCHANGED <<present, active, queue, files, engine, notice, restVars>>

\* loopHandler up to the range check.
loopHandler(p) ==
    /\ pc[p] = "loop_check"
    /\ IF ~IsActive
       THEN Finish(p, loc[p], "no_track_playing")
       ELSE IF loc[p].loop < 0 \/ loc[p].loop > LoopMax
       THEN Finish(p, loc[p], "loop_out_of_range")
       ELSE Goto(p, "loop_set") /\ UNCHANGED loc
    /\ UNCHANGED <<present, active, queue, files, engine, notice, restVars>>

\* loopHandlerSet replying without the store call.
loopHandlerSetReplyOnly(p) ==
    /\ pc[p] = "loop_set"
    /\ Finish(p, loc[p], "loop_status_changed")
    /\ UNCHANGED <<present, active, queue, files, engine, notice, restVars>>

\* loopHandler: cache.ChatCache.SetLoopCount(chatID, argsInt)
loopHandlerSet(p) ==
    /\ pc[p] = "loop_set"
    /\ SetLoopCount(loc[p].loop)
    /\ Finish(p, loc[p], "loop_status_changed")
    /\ UNCHANGED <<files, engine, notice, restVars>>

\* ---------------------------------------------------- the remove handler

\* /remove n from a sender the adminMode filter admits is dispatched to
\* removeHandler.
RemoveCommand(p, n) ==
    /\ Begin(p, [NoLoc EXCEPT !.op = "remove", !.trackNum = n], "remove_check")
    /\ UNCHANGED <<present, active, queue, files, engine, notice, restVars>>

\* removeHandler: reply "no_track_playing" unless IsActive.
removeHandler(p) ==
    /\ pc[p] = "remove_check"
    /\ IF IsActive
       THEN Goto(p, "remove_queue") /\ UNCHANGED loc
       ELSE Finish(p, loc[p], "no_track_playing")
    /\ UNCHANGED <<present, active, queue, files, engine, notice, restVars>>

\* removeHandler: queue := GetQueue(chatID); an empty queue and a number
\* outside 1..len(queue) are refused.
removeHandlerQueue(p) ==
    /\ pc[p] = "remove_queue"
    /\ LET q == IF present THEN queue ELSE <<>>
           l == [loc[p] EXCEPT !.queue = q]
       IN IF Len(q) = 0
          THEN Finish(p, l, "queue_empty")
          ELSE IF l.trackNum <= 0 \/ l.trackNum > Len(q)
          THEN Finish(p, l, "remove_out_of_range")
          ELSE Goto(p, "remove_track") /\ loc' = [loc EXCEPT ![p] = l]
    /\ UNCHANGED <<present, active, queue, files, engine, notice, restVars>>

\* removeHandler: RemoveTrack(chatID, trackNum), its result dropped, then
\* the reply "remove_success".
removeHandlerRemove(p) ==
    /\ pc[p] = "remove_track"
    /\ RemoveTrack(loc[p].trackNum)
    /\ Finish(p, loc[p], "remove_success")
    /\ UNCHANGED <<files, engine, notice, restVars>>

\* ------------------------------------------------------ the seek handler

\* The smallest number of seconds seekHandler accepts.
MinSeek == 20

\* /seek n from a sender the adminMode filter admits is dispatched to
\* seekHandler.
SeekCommand(p, n) ==
    /\ Begin(p, [NoLoc EXCEPT !.op = "seek", !.seek.seekTime = n], "seek_check")
    /\ UNCHANGED <<present, active, queue, files, engine, notice, restVars>>

\* seekHandler: reply "no_track_playing" unless IsActive.
seekHandler(p) ==
    /\ pc[p] = "seek_check"
    /\ IF IsActive
       THEN Goto(p, "seek_track") /\ UNCHANGED loc
       ELSE Finish(p, loc[p], "no_track_playing")
    /\ UNCHANGED <<present, active, queue, files, engine, notice, restVars>>

\* seekHandler from GetPlayingTrack on. duration is the Duration of the
\* playing track and played what the engine reports as played time when it
\* is asked (fetch tells whether it answers). A seekTime under MinSeek, a
\* played time that cannot be had and a position at or past the duration
\* are refused; otherwise SeekStream plays the track's FilePath again from
\* toSeek (its own check, toSeek < 0 or duration <= 0, cannot fail here).
seekHandlerTrack(p, durations, times) ==
    /\ pc[p] = "seek_track"
    /\ IF GetPlayingTrack = NoTrack
       THEN Finish(p, loc[p], "no_track_playing")
       ELSE \E duration \in durations, played \in times, fetch \in {"ok", "failed"} :
         LET seekTime == loc[p].seek.seekTime
             toSeek == played + seekTime
             l == [loc[p] EXCEPT !.seek.duration = duration,
                                 !.seek.played = played,
                                 !.song = Ref(GetPlayingTrack)]
         IN IF seekTime < 0 \/ seekTime < MinSeek
            THEN /\ fetch = "ok"
                 /\ Finish(p, l, "seek_min_time")
            ELSE IF fetch = "failed"
            THEN Finish(p, l, "seek_fetch_duration_error")
            ELSE IF toSeek >= duration
            THEN Finish(p, l, "seek_beyond_duration")
            ELSE IF toSeek < 0 \/ duration <= 0
            THEN Finish(p, l, "seek_error")
            ELSE /\ Goto(p, "PlayMedia")
                 /\ loc' = [loc EXCEPT ![p] = [l EXCEPT !.seek.toSeek = toSeek]]
    /\ UNCHANGED <<present, active, queue, files, engine, notice, restVars>>

\* ----------------------------------------------------------- TTL cache

Keys == 1..NumKeys
Values == 1..NumValues

\* data[key] of a key the map does not hold: the zero CacheItem, ok false.
NoItem == [ok |-> FALSE, Value |-> 0, Expiration |-> 0]

\* No Set of the key is on record.
NoSet == [live |-> FALSE, Value |-> 0, at |-> 0, ttl |-> 0]

\* A goroutine that is in no Get.
NoRead == [at |-> "idle", key |-> 0, item |-> NoItem, seen |-> NoSet,
           Value |-> 0, hit |-> FALSE]

\* The variables of the playback model.
playVars == <<present, active, queue, files, engine, pc, loc, notice,
              allocated, limit, filterVars, rosterVars, settingsVars,
              assistantVars, moreVars>>

\* SetWithTTL with Expiration: time.Now().
SetWithTTLExpiresNow(key, value, ttl) ==
    /\ data' = [data EXCEPT ![key] =
                   [ok |-> TRUE, Value |-> value, Expiration |-> now]]
    /\ lastSet' = [lastSet EXCEPT ![key] =
                      [live |-> TRUE, Value |-> value, at |-> now, ttl |-> ttl]]
    /\ UNCHANGED <<now, reads, playVars>>

\* SetWithTTL(key, value, ttl), under the write lock.
SetWithTTL(key, value, ttl) ==
    /\ data' = [data EXCEPT ![key] =
                   [ok |-> TRUE, Value |-> value, Expiration |-> now + ttl]]
    /\ lastSet' = [lastSet EXCEPT ![key] =
                      [live |-> TRUE, Value |-> value, at |-> now, ttl |-> ttl]]
    /\ UNCHANGED <<now, reads, playVars>>

\* Set(key, value): SetWithTTL with the cache's default TTL.
Set(key, value) == SetWithTTL(key, value, DefaultTTL)

\* Delete(key), under the write lock.
Delete(key) ==
    /\ data' = [data EXCEPT ![key] = NoItem]
    /\ lastSet' = [lastSet EXCEPT ![key] = NoSet]
    /\ UNCHANGED <<now, reads, playVars>>

\* Clear(), under the write lock.
Clear ==
    /\ data' = [k \in Keys |-> NoItem]
    /\ lastSet' = [k \in Keys |-> NoSet]
    /\ UNCHANGED <<now, reads, playVars>>

\* Get(key), its first half: item, ok := c.data[key] under the read lock.
Get(p, key) ==
    /\ reads[p].at \in {"idle", "done"}
    /\ reads' = [reads EXCEPT ![p] =
                    [NoRead EXCEPT !.at = "check", !.key = key,
                                   !.item = data[key], !.seen = lastSet[key]]]
    /\ UNCHANGED <<data, now, lastSet, playVars>>

\* The second half of Get without the Expiration test.
GetCheckNoExpiry(p) ==
    /\ reads[p].at = "check"
    /\ LET item == reads[p].item
           miss == ~item.ok
       IN reads' = [reads EXCEPT ![p] =
                       [NoRead EXCEPT !.at = "done", !.key = reads[p].key,
                                      !.Value = IF miss THEN 0 ELSE item.Value,
                                      !.hit = ~miss]]
    /\ UNCHANGED <<data, now, lastSet, playVars>>

\* Get, its second half, outside the lock: a missing item or one whose
\* Expiration time.Now() is after gives the zero value and false.
GetCheck(p) ==
    /\ reads[p].at = "check"
    /\ LET item == reads[p].item
           miss == ~item.ok \/ now > item.Expiration
       IN reads' = [reads EXCEPT ![p] =
                       [NoRead EXCEPT !.at = "done", !.key = reads[p].key,
                                      !.Value = IF miss THEN 0 ELSE item.Value,
                                      !.hit = ~miss]]
    /\ UNCHANGED <<data, now, lastSet, playVars>>

\* Time passes.
Tick ==
    /\ now < MaxTime
    /\ now' = now + 1
    /\ UNCHANGED <<data, lastSet, reads, playVars>>

\* ------------------------------------------------ admin roster cache

\* time.Hour, the TTL of AdminCache, and the ten minutes of a negative
\* entry, in minutes.
HourTTL == 60
NegativeTTL == 10

\* The list the platform answers a roster fetch with.
Fetched == [users |-> roster, bot |-> botStatus]

\* A goroutine that is in no roster lookup.
NoLookup == [at |-> "idle", entry |-> "none", force |-> FALSE, late |-> FALSE,
             admins |-> NoEntry, err |-> <<>>]

\* No non-forced read has returned a list since the last invalidation.
NoList == [live |-> FALSE, admins |-> NoEntry, until |-> 0]

\* No roster fetch has failed since the last invalidation.
NoFailure == [live |-> FALSE, at |-> 0]

\* The rest of the state, which the roster cache leaves alone.
rosterRest == <<present, active, queue, files, engine, pc, loc, notice,
                allocated, limit, play_mode, admin_mode, authUsers, roster,
                botStatus, data, lastSet, reads, settingsVars, assistantVars, moreVars>>

\* A non-forced read returns the list admins, served from an entry that
\* expires at until: the first such read of a window is put on record.
FirstRead(admins, until) ==
    IF lastRead.live /\ now <= lastRead.until
    THEN lastRead
    ELSE [live |-> TRUE, admins |-> admins, until |-> until]

\* A handler calls GetAdmins or GetUserAdmin for the chat. Only GetAdmins
\* is ever called with forceReload.
RosterLookup(p, entry, force) ==
    /\ lookup[p].at \in {"idle", "done"}
    /\ force => entry = "GetAdmins"
    /\ lookup' = [lookup EXCEPT ![p] =
                     [NoLookup EXCEPT !.at = IF force THEN "fetch" ELSE "get",
                                      !.entry = entry, !.force = force,
                                      !.late = /\ failed.live
                                               /\ now < failed.at + NegativeTTL]]
    /\ UNCHANGED <<adminCache, adminExpiration, lastRead, failed, now, rosterRest>>

\* GetAdmins without forceReload: AdminCache.Get(cacheKey). An entry that
\* is there and not expired is returned.
GetAdminsGet(p) ==
    /\ lookup[p].at = "get"
    /\ IF adminCache # NoEntry /\ ~(now > adminExpiration)
       THEN /\ lookup' = [lookup EXCEPT ![p].at = "done", ![p].admins = adminCache]
            /\ lastRead' = FirstRead(adminCache, adminExpiration)
       ELSE /\ lookup' = [lookup EXCEPT ![p].at = "fetch"]
            /\ UNCHANGED lastRead
    /\ UNCHANGED <<adminCache, adminExpiration, failed, now, rosterRest>>

\* client.GetChatMembers answers with the roster or with an error. GetAdmins
\* returns the error as it is; GetUserAdmin goes on to its negative entry.
GetAdminsFetch(p, answer) ==
    /\ lookup[p].at = "fetch"
    /\ IF answer = "ok"
       THEN /\ lookup' = [lookup EXCEPT ![p].at = "set", ![p].admins = Fetched]
            /\ UNCHANGED failed
       ELSE /\ lookup' = [lookup EXCEPT
                             ![p].at = IF lookup[p].entry = "GetUserAdmin"
                                       THEN "negative" ELSE "done",
                             ![p].err = FetchErr]
            /\ failed' = [live |-> TRUE, at |-> now]
    /\ UNCHANGED <<adminCache, adminExpiration, lastRead, now, rosterRest>>

\* AdminCache.Set(cacheKey, admins) and the return of the fetched list.
GetAdminsSet(p) ==
    /\ lookup[p].at = "set"
    /\ adminCache' = lookup[p].admins
    /\ adminExpiration' = now + HourTTL
    /\ lookup' = [lookup EXCEPT ![p].at = "done"]
    /\ lastRead' = IF lookup[p].force
                   THEN NoList
                   ELSE FirstRead(lookup[p].admins, now + HourTTL)
    /\ UNCHANGED <<failed, now, rosterRest>>

\* GetUserAdmin after a failed GetAdmins:
\* AdminCache.SetWithTTL(cacheKey, []*telegram.Participant{}, 10*time.Minute).
GetUserAdminNegative(p) ==
    /\ lookup[p].at = "negative"
    /\ adminCache' = NegativeRoster
    /\ adminExpiration' = now + NegativeTTL
    /\ lookup' = [lookup EXCEPT ![p].at = "done"]
    /\ UNCHANGED <<lastRead, failed, now, rosterRest>>

\* ClearAdminCache(chatID): AdminCache.Delete(cacheKey).
ClearAdminCacheEntry ==
    /\ adminCache' = NoEntry
    /\ adminExpiration' = 0
    /\ lastRead' = NoList
    /\ failed' = NoFailure
    /\ UNCHANGED <<lookup, now, rosterRest>>

\* Ten minutes pass.
RosterTick ==
    /\ now < MaxRosterTime
    /\ now' = now + NegativeTTL
    /\ UNCHANGED <<adminCache, adminExpiration, lookup, lastRead, failed, rosterRest>>

\* ------------------------------------------------- chat settings store

\* c.availableClients: the assistants that are running.
Assistants == {"a1", "a2"}

\* The TTL of Database.ChatCache, in minutes.
ChatTTL == 20

\* A key the cached map does not hold.
Absent == "absent"

\* The list of a map that does not hold the key auth_users.
AbsentList == {Absent}

\* The empty map, map[string]interface{}{}.
EmptyChat == [play_mode |-> Absent, admin_mode |-> Absent,
              assistant |-> Absent, auth_users |-> AbsentList]

\* ChatCache without an entry for the chat.
NoChat == [ok |-> FALSE, chat |-> EmptyChat, Expiration |-> 0]

NoWrite == [op |-> "none", user |-> "none"]

\* What the store answers, and what it does with a write.
DbAnswers == {"ok", "err"}

\* The chat's document as FindOne decodes it.
Document == [play_mode |-> play_mode, admin_mode |-> admin_mode,
             assistant |-> assistant, auth_users |-> authUsers]

\* ChatCache.Get(key): the entry, when there is one that has not expired.
ChatCacheHit == settingsCache.ok /\ ~(now > settingsCache.Expiration)

\* ChatCache.Set(key, chat)
ChatCacheSet(chat) == [ok |-> TRUE, chat |-> chat, Expiration |-> now + ChatTTL]

\* Database.GetChat: the cached map, else the document, which is then
\* cached; nil when the store fails. db is what the store answers if asked.
GetChat(db) ==
    IF ChatCacheHit
    THEN [nil |-> FALSE, chat |-> settingsCache.chat, cache |-> settingsCache]
    ELSE IF db = "ok"
    THEN [nil |-> FALSE, chat |-> Document, cache |-> ChatCacheSet(Document)]
    ELSE [nil |-> TRUE, chat |-> EmptyChat, cache |-> settingsCache]

\* chat["play_mode"].(string), "everyone" by default
GetPlayMode(db) ==
    LET r == GetChat(db) IN
    IF r.nil \/ r.chat.play_mode = Absent THEN "everyone" ELSE r.chat.play_mode

\* chat["admin_mode"].(string), "everyone" by default
GetAdminMode(db) ==
    LET r == GetChat(db) IN
    IF r.nil \/ r.chat.admin_mode = Absent THEN "everyone" ELSE r.chat.admin_mode

\* chat["assistant"].(string), "" by default
GetAssistant(db) ==
    LET r == GetChat(db) IN
    IF r.nil \/ r.chat.assistant = Absent THEN "" ELSE r.chat.assistant

\* getIntSlice(chat["auth_users"]), empty by default
GetAuthUsers(db) ==
    LET r == GetChat(db) IN
    IF r.nil \/ r.chat.auth_users = AbsentList THEN {} ELSE r.chat.auth_users

\* Database.IsAuthUser: an administrator of the cached roster, or one of
\* GetAuthUsers.
DatabaseIsAuthUser(u, db) ==
    u \in GetChatAdmins(adminCache) \/ u \in GetAuthUsers(db)

\* The rest of the state, which the settings store leaves alone.
settingsRest == <<present, active, queue, files, engine, pc, loc, notice,
                  allocated, limit, roster, adminCache, botStatus, ttlDataVars,
                  rosterVars, assistantVars, moreVars>>

\* A handler reads a setting: GetChat caches the document on a miss.
ReadSetting(db) ==
    /\ settingsCache' = GetChat(db).cache
    /\ settingsCache' # settingsCache
    /\ UNCHANGED <<play_mode, admin_mode, authUsers, assistant, bound, lastWrite,
                   now, settingsRest>>

\* The cached map after updateChatField: the cached map, or a new map when
\* there is none, with the one key set.
Updated(key, value) ==
    LET cached == IF ChatCacheHit THEN settingsCache.chat ELSE EmptyChat
    IN ChatCacheSet([cached EXCEPT ![key] = value])

\* SetPlayMode: updateChatField(ctx, chatID, "play_mode", playMode)
SetPlayMode(mode, db) ==
    /\ IF db = "ok"
       THEN /\ play_mode' = mode
            /\ settingsCache' = Updated("play_mode", mode)
       ELSE UNCHANGED <<play_mode, settingsCache>>
    /\ lastWrite' = NoWrite
    /\ UNCHANGED <<admin_mode, authUsers, assistant, bound, now, settingsRest>>

\* SetAdminMode: updateChatField(ctx, chatID, "admin_mode", adminMode)
SetAdminMode(mode, db) ==
    /\ IF db = "ok"
       THEN /\ admin_mode' = mode
            /\ settingsCache' = Updated("admin_mode", mode)
       ELSE UNCHANGED <<admin_mode, settingsCache>>
    /\ lastWrite' = NoWrite
    /\ UNCHANGED <<play_mode, authUsers, assistant, bound, now, settingsRest>>

\* RemoveAssistant: updateChatField(ctx, chatID, "assistant", nil)
RemoveAssistant(db) ==
    /\ IF db = "ok"
       THEN /\ assistant' = ""
            /\ settingsCache' = Updated("assistant", "")
            /\ bound' = ""
       ELSE UNCHANGED <<assistant, settingsCache, bound>>
    /\ lastWrite' = NoWrite
    /\ UNCHANGED <<play_mode, admin_mode, authUsers, now, settingsRest>>

\* getClientName: the assistant GetAssistant names when it is one of
\* availableClients, else a random one of them, which SetAssistant records
\* if the store takes the write. db answers the read, dbSet the write.
getClientName(db, dbSet, newClient) ==
    LET named == GetAssistant(db) IN
    IF named \in Assistants
    THEN /\ bound' = named
         /\ settingsCache' = GetChat(db).cache
         /\ UNCHANGED assistant
    ELSE /\ bound' = newClient
         /\ IF dbSet = "ok"
            THEN /\ assistant' = newClient
                 /\ settingsCache' =
                        LET got == GetChat(db).cache
                            cached == IF got.ok /\ ~(now > got.Expiration)
                                      THEN got.chat ELSE EmptyChat
                        IN ChatCacheSet([cached EXCEPT !.assistant = newClient])
            ELSE /\ settingsCache' = GetChat(db).cache
                 /\ UNCHANGED assistant

\* GetGroupAssistant(chatID): the ubot.Context of the assistant
\* getClientName names.
GetGroupAssistant(db, dbSet, newClient) ==
    /\ getClientName(db, dbSet, newClient)
    /\ lastWrite' = NoWrite
    /\ UNCHANGED <<play_mode, admin_mode, authUsers, now, settingsRest>>

\* AddAuthUser: $addToSet in the store, then the list of GetChat with the
\* user appended is put into the map GetChat gave and cached. With no map
\* (the store failed the read) the assignment panics.
AddAuthUser(u, db, dbGet) ==
    /\ IF db = "ok"
       THEN /\ authUsers' = authUsers \cup {u}
            /\ LET doc == [Document EXCEPT !.auth_users = authUsers \cup {u}]
                   chat == IF ChatCacheHit THEN settingsCache.chat ELSE doc
                   list == IF chat.auth_users = AbsentList THEN {} ELSE chat.auth_users
               IN IF ~ChatCacheHit /\ dbGet = "err"
                  THEN /\ UNCHANGED settingsCache
                       /\ lastWrite' = NoWrite
                  ELSE /\ settingsCache' =
                              ChatCacheSet([chat EXCEPT !.auth_users = list \cup {u}])
                       /\ lastWrite' = [op |-> "AddAuthUser", user |-> u]
       ELSE /\ UNCHANGED <<authUsers, settingsCache>>
            /\ lastWrite' = NoWrite
    /\ UNCHANGED <<play_mode, admin_mode, assistant, bound, now, settingsRest>>

\* RemoveAuthUser: $pull in the store, then the list of GetChat without the
\* user is put into the map GetChat gave and cached.
RemoveAuthUser(u, db, dbGet) ==
    /\ IF db = "ok"
       THEN /\ authUsers' = authUsers \ {u}
            /\ LET doc == [Document EXCEPT !.auth_users = authUsers \ {u}]
                   chat == IF ChatCacheHit THEN settingsCache.chat ELSE doc
                   list == IF chat.auth_users = AbsentList THEN {} ELSE chat.auth_users
               IN IF ~ChatCacheHit /\ dbGet = "err"
                  THEN /\ UNCHANGED settingsCache
                       /\ lastWrite' = NoWrite
                  ELSE /\ settingsCache' =
                              ChatCacheSet([chat EXCEPT !.auth_users = list \ {u}])
                       /\ lastWrite' = [op |-> "RemoveAuthUser", user |-> u]
       ELSE /\ UNCHANGED <<authUsers, settingsCache>>
            /\ lastWrite' = NoWrite
    /\ UNCHANGED <<play_mode, admin_mode, assistant, bound, now, settingsRest>>

\* GetAllChats: every chat the store lists gets the empty map as its entry.
GetAllChats(db) ==
    /\ db = "ok"
    /\ settingsCache' = ChatCacheSet(EmptyChat)
    /\ lastWrite' = NoWrite
    /\ UNCHANGED <<play_mode, admin_mode, authUsers, assistant, bound, now,
                   settingsRest>>

\* More than the twenty minutes of an entry pass.
SettingsTick ==
    /\ now < MaxSettingsTime
    /\ now' = now + ChatTTL + 1
    /\ UNCHANGED <<play_mode, admin_mode, authUsers, settingsVars, settingsRest>>

\* ---------------------------------------------- assistant membership

Statuses == {"left", "member", "admin", "creator", "kicked", "restricted"}

\* statusCache without an entry for the chat and the assistant.
NoStatus == "none"

NoEvent == [user |-> "none", status |-> "none"]

\* No PlayMedia has been called.
NoPlayMedia == [at |-> "idle", call |-> "none", routed |-> {}, status |-> "none",
                joined |-> "none", recovered |-> FALSE, out |-> "none"]

\* The rest of the state, which the assistants' bookkeeping leaves alone.
assistantRest == <<engine, pc, loc, notice,
                   allocated, limit, play_mode, admin_mode, authUsers, roster,
                   adminCache, botStatus, now, ttlDataVars, rosterVars, moreVars>>

\* PlayMedia gives up: cache.ChatCache.ClearChat(chatID, true)
GiveUp(gaveUp) ==
    IF gaveUp THEN ClearChat ELSE UNCHANGED <<present, active, queue, files>>

\* PlayMedia: call, err := c.GetGroupAssistant(chatID)
PlayMediaAssistant(db, dbSet, newClient) ==
    /\ pm.at \in {"idle", "done"}
    /\ getClientName(db, dbSet, newClient)
    /\ pm' = [NoPlayMedia EXCEPT !.at = "checkUserStats", !.call = bound',
                                 !.routed = {bound'}]
    /\ lastWrite' = NoWrite
    /\ UNCHANGED <<membership, lastEvent, present, active, queue, files,
                   assistantRest>>

\* checkUserStats: the assistant GetGroupAssistant gives now, and its status
\* from statusCache, else from the platform (an error counts as left),
\* which UpdateMembership caches.
checkUserStats(db, dbSet, newClient, member) ==
    /\ pm.at = "checkUserStats"
    /\ getClientName(db, dbSet, newClient)
    /\ LET ub == bound'
           status == IF membership[ub] # NoStatus THEN membership[ub] ELSE member
       IN /\ membership' = [membership EXCEPT ![ub] = status]
          /\ member \in Statuses \cup {"unknown"}
          /\ membership[ub] # NoStatus => member = "left"
          /\ pm' = [pm EXCEPT !.at = "joinAssistant", !.status = status,
                              !.routed = @ \cup {ub}]
    /\ lastWrite' = NoWrite
    /\ lastEvent' = NoEvent
    /\ UNCHANGED <<present, active, queue, files, assistantRest>>

\* joinAssistant after checkUserStats: a member has nothing to do; one that
\* left joins; one that is kicked or restricted is unbanned or unmuted by
\* the bot, which the cached roster shows to be an administrator (unban
\* says whether its rights and EditBanned allowed it), and the kicked one
\* then joins; any other status joins.
joinAssistant(unban) ==
    /\ pm.at = "joinAssistant"
    /\ IF pm.status \in {"member", "admin", "creator"}
       THEN /\ unban = "ok"
            /\ pm' = [pm EXCEPT !.at = "Play", !.recovered = TRUE]
       ELSE IF pm.status \in {"kicked", "restricted"}
       THEN IF unban = "failed"
            THEN pm' = [pm EXCEPT !.at = "done", !.out = "joinFailed"]
            ELSE IF pm.status = "kicked"
            THEN pm' = [pm EXCEPT !.at = "joinUb"]
            ELSE pm' = [pm EXCEPT !.at = "Play", !.recovered = TRUE,
                                  !.joined = "unmuted"]
       ELSE /\ unban = "ok"
            /\ pm' = [pm EXCEPT !.at = "joinUb"]
    /\ GiveUp(pm'.at = "done")
    /\ UNCHANGED <<membership, lastEvent, settingsVars, assistantRest>>

\* What the join through the invite link comes to: joined, already a
\* participant, a join request that the bot approves or cannot approve, an
\* expired link, another error, or no invite link at all.
JoinOutcomes == {"joined", "USER_ALREADY_PARTICIPANT", "requestApproved",
                 "requestNotApproved", "INVITE_HASH_EXPIRED", "error", "noLink"}

\* joinUb: the assistant GetGroupAssistant gives now joins through the
\* invite link; UpdateMembership records a member after a join and for an
\* assistant that is a participant already.
joinUb(db, dbSet, newClient, outcome) ==
    /\ pm.at = "joinUb"
    /\ getClientName(db, dbSet, newClient)
    /\ LET ub == bound' IN
       /\ membership' = IF outcome \in {"joined", "USER_ALREADY_PARTICIPANT"}
                        THEN [membership EXCEPT ![ub] = "member"]
                        ELSE membership
       /\ pm' = IF outcome \in {"joined", "USER_ALREADY_PARTICIPANT",
                                 "requestApproved"}
                THEN [pm EXCEPT !.at = "Play", !.recovered = TRUE,
                                !.joined = outcome,
                                !.routed = @ \cup {ub}]
                ELSE [pm EXCEPT !.at = "done", !.out = "joinFailed",
                                !.joined = outcome,
                                !.routed = IF outcome = "noLink"
                                           THEN @ ELSE @ \cup {ub}]
    /\ GiveUp(pm'.at = "done")
    /\ lastWrite' = NoWrite
    /\ lastEvent' = NoEvent
    /\ UNCHANGED assistantRest

\* PlayMedia: call.Play(chatID, mediaDesc), on the assistant of the first
\* GetGroupAssistant.
PlayMediaCall(result) ==
    /\ pm.at = "Play"
    /\ pm' = [pm EXCEPT !.at = "done", !.out = result]
    /\ GiveUp(result = "playFailed")
    /\ UNCHANGED <<membership, lastEvent, settingsVars, assistantRest>>

\* handleParticipant for an update about assistant a with the old status
\* o and the new status n; updates about an assistant other than the
\* chat's are ignored. msg is whether the ban notice could be sent.
handleParticipant(a, o, n, newClient, msg) ==
    /\ getClientName("ok", "ok", newClient)
    /\ lastWrite' = NoWrite
    /\ UNCHANGED <<pm, engine, pc, loc, notice, allocated, limit, play_mode,
                   admin_mode, authUsers, roster, adminCache, botStatus, now,
                   ttlDataVars, rosterVars, moreVars>>
    /\ IF a # bound'
       THEN /\ msg = "sent"
            /\ UNCHANGED <<membership, lastEvent, present, active, queue, files>>
       ELSE IF o = "left" /\ n \in {"member", "admin"}
       THEN \* handleJoin
            /\ msg = "sent"
            /\ membership' = [membership EXCEPT ![a] = "member"]
            /\ lastEvent' = [user |-> a, status |-> n]
            /\ UNCHANGED <<present, active, queue, files>>
       ELSE IF o \in {"member", "admin"} /\ n = "left"
       THEN \* handleLeaveOrKick
            /\ msg = "sent"
            /\ ClearChat
            /\ membership' = [membership EXCEPT ![a] = "left"]
            /\ lastEvent' = [user |-> a, status |-> n]
       ELSE IF n = "kicked"
       THEN \* handleBan
            /\ ClearChat
            /\ IF msg = "sent"
               THEN /\ membership' = [membership EXCEPT ![a] = "kicked"]
                    /\ lastEvent' = [user |-> a, status |-> n]
               ELSE /\ UNCHANGED membership
                    /\ lastEvent' = NoEvent
       ELSE IF o = "kicked" /\ n = "left"
       THEN \* handleUnban
            /\ msg = "sent"
            /\ membership' = [membership EXCEPT ![a] = "left"]
            /\ lastEvent' = [user |-> a, status |-> n]
            /\ UNCHANGED <<present, active, queue, files>>
       ELSE \* handlePromotionDemotion
            /\ msg = "sent"
            /\ membership' = IF (o # "admin" /\ n = "admin")
                                  \/ (o = "admin" /\ n # "admin")
                             THEN [membership EXCEPT ![a] = n]
                             ELSE membership
            /\ lastEvent' = [user |-> a, status |-> n]
            /\ UNCHANGED <<present, active, queue, files>>

\* ------------------------------------------- two chats, one downloads dir

Chats == {"A", "B"}
SharedIDs == 1..NumSharedIDs

\* chatCache without an entry for the chat.
NoChatData == [present |-> FALSE, active |-> FALSE, queue |-> <<>>]

\* The rest of the state, which the two chats leave alone.
chatsRest == <<present, active, queue, engine, pc, loc, notice, allocated, limit,
               filterVars, ttlVars, rosterVars, settingsVars, assistantVars,
               req, updater, download>>

\* Paths of the tracks of chat c that have a FilePath.
PathsIn(c) == PathsOf(chatCache[c].queue)

\* /play of one track in chat c, the handler as a whole: a track already
\* queued is reported; on an active chat AddSong without a file; on an idle
\* chat the download to the path of the track id, SetActive, AddSong and
\* PlayMedia.
PlayIn(c, id) ==
    LET chat == chatCache[c]
        isActive == chat.present /\ chat.active
    IN /\ \A i \in 1..Len(chat.queue) : chat.queue[i].id # id
       /\ IF isActive
          THEN /\ chatCache' = [chatCache EXCEPT ![c].queue =
                                   Append(@, [id |-> id, path |-> NoPath])]
               /\ UNCHANGED files
          ELSE /\ chatCache' = [chatCache EXCEPT ![c] =
                                   [present |-> TRUE, active |-> TRUE,
                                    queue |-> Append(chat.queue,
                                                [id |-> id, path |-> PathOf(id)])]]
               /\ files' = files \cup {PathOf(id)}
       /\ UNCHANGED chatsRest

\* PlayNext in chat c (a skip or the end of the stream), as a whole, with
\* no loop set: RemoveCurrentSong(c, true), then playSong of the next
\* track, which downloads it, or Stop when there is none.
PlayNextIn(c) ==
    LET chat == chatCache[c]
        q == chat.queue
        popped == IF q[1].path # NoPath THEN files \ {q[1].path} ELSE files
    IN /\ chat.present /\ chat.active /\ Len(q) >= 1
       /\ IF Len(q) >= 2
          THEN /\ chatCache' = [chatCache EXCEPT ![c].queue =
                                   [Tail(q) EXCEPT ![1].path = PathOf(q[2].id)]]
               /\ files' = popped \cup {PathOf(q[2].id)}
          ELSE /\ chatCache' = [chatCache EXCEPT ![c] = NoChatData]
               /\ files' = popped
       /\ UNCHANGED chatsRest

\* /stop in chat c: Stop, that is ClearChat(c, true).
StopIn(c) ==
    /\ chatCache[c].present /\ chatCache[c].active
    /\ chatCache' = [chatCache EXCEPT ![c] = NoChatData]
    /\ files' = files \ PathsIn(c)
    /\ UNCHANGED chatsRest

\* ------------------------------------------------------ catalog calls

maxRetries == 2
\* initialBackoff, in seconds.
initialBackoff == 1

CatalogCalls == {"get_url", "search", "track"}

\* What client.Do comes to: a response with its status code, a temporary
\* network error (isTemporaryError) or another error.
StatusCodes == {200, 404, 500, 503}
Outcomes == {[status |-> st, err |-> "none"] : st \in StatusCodes}
            \cup {[status |-> 0, err |-> e] : e \in {"temporary", "permanent"}}

\* No catalog call has been made. tries are the outcomes of the HTTP
\* attempts of the call, waited the sleeps before them.
NoRequest == [call |-> "none", at |-> "idle", attempt |-> 0, backoff |-> 0,
              waited |-> <<>>, tries |-> <<>>, out |-> "none"]

\* The rest of the state, which the models of this part leave alone.
moreRest == <<present, active, queue, files, engine, pc, loc, notice, allocated,
              limit, filterVars, data, lastSet, reads, rosterVars, settingsVars,
              assistantVars>>

\* GetInfo (get_url), Search (search) or GetTrack (track) is called.
CatalogCall(call) ==
    /\ req.at \in {"idle", "ret"}
    /\ req' = [NoRequest EXCEPT !.call = call, !.at = "Do",
                                !.backoff = initialBackoff]
    /\ UNCHANGED <<moreRest, now, chatCache, updater, download>>

\* sendRequest, attempt > 0: time.Sleep(backoff); backoff *= 2
sendRequestSleep ==
    /\ req.at = "Sleep"
    /\ req' = [req EXCEPT !.waited = Append(@, req.backoff),
                          !.backoff = 2 * @, !.at = "Do"]
    /\ UNCHANGED <<moreRest, now, chatCache, updater, download>>

\* sendRequest: client.Do(req) of GetInfo and GetTrack. A status below 500
\* returns the response; a 5xx or a temporary error goes to the next
\* attempt while attempt < maxRetries; another error breaks the loop.
sendRequestDo(o) ==
    /\ req.at = "Do"
    /\ req.call \in {"get_url", "track"}
    /\ IF o.err = "none" /\ o.status < 500
       THEN req' = [req EXCEPT !.tries = Append(@, o), !.at = "resp",
                               !.out = "response"]
       ELSE IF o.err = "permanent" \/ req.attempt + 1 >= maxRetries
       THEN req' = [req EXCEPT !.tries = Append(@, o), !.at = "resp",
                               !.out = "error"]
       ELSE req' = [req EXCEPT !.tries = Append(@, o), !.attempt = @ + 1,
                               !.at = "Sleep"]
    /\ UNCHANGED <<moreRest, now, chatCache, updater, download>>

\* Search: http.DefaultClient.Do(req)
SearchDo(o) ==
    /\ req.at = "Do"
    /\ req.call = "search"
    /\ req' = [req EXCEPT !.tries = Append(@, o), !.at = "resp",
                          !.out = IF o.err = "none" THEN "response" ELSE "error"]
    /\ UNCHANGED <<moreRest, now, chatCache, updater, download>>

\* GetInfo, Search, GetTrack after the request: an error, or a status
\* other than 200, or a body that does not decode, is an error.
CatalogReturn(decode) ==
    /\ req.at = "resp"
    /\ LET last == req.tries[Len(req.tries)] IN
       IF req.out = "response" /\ last.status = 200
       THEN req' = [req EXCEPT !.at = "ret",
                               !.out = IF decode = "ok" THEN "data" ELSE "error"]
       ELSE /\ decode = "ok"
            /\ req' = [req EXCEPT !.at = "ret", !.out = "error"]
    /\ UNCHANGED <<moreRest, now, chatCache, updater, download>>

\* ----------------------------------------------------- the status message

\* 500 * time.Millisecond, in quarter seconds.
EditGap == 2

\* Texts of a status message; 0 is the text of the first reply.
Texts == 0..NumTexts

NoGap == -1

\* The statusUpdater handlePlay makes after its first reply: lastMessage is
\* the text of the reply and lastSent the time of its making. mu is the
\* holder of the mutex, at, text and ok the position, argument and result
\* of each goroutine's Edit, edited the last successful platform edit, with
\* the time since the successful one before it.
NoUpdater == [mu |-> "none", lastMessage |-> 0, lastSent |-> 0,
              at |-> [p \in Procs |-> "idle"], text |-> [p \in Procs |-> 0],
              ok |-> [p \in Procs |-> FALSE],
              edited |-> [live |-> FALSE, at |-> 0, text |-> 0, gap |-> NoGap]]

\* updater.Edit(text) is called on goroutine p.
EditRequest(p, text) ==
    /\ updater.at[p] = "idle"
    /\ updater' = [updater EXCEPT !.at[p] = "Lock", !.text[p] = text]
    /\ UNCHANGED <<moreRest, now, chatCache, req, download>>

\* su.mu.Lock()
EditLock(p) ==
    /\ updater.at[p] = "Lock"
    /\ updater.mu = "none"
    /\ updater' = [updater EXCEPT !.mu = p, !.at[p] = "check"]
    /\ UNCHANGED <<moreRest, now, chatCache, req, download>>

\* if text == su.lastMessage { return su.NewMessage, nil }
EditCheck(p) ==
    /\ updater.at[p] = "check"
    /\ IF updater.text[p] = updater.lastMessage
       THEN updater' = [updater EXCEPT !.mu = "none", !.at[p] = "idle"]
       ELSE updater' = [updater EXCEPT !.at[p] = "Sleep"]
    /\ UNCHANGED <<moreRest, now, chatCache, req, download>>

\* EditSleep that does not wait.
EditSleepNoWait(p) ==
    /\ updater.at[p] = "Sleep"
    /\ updater' = [updater EXCEPT !.at[p] = "Edit"]
    /\ UNCHANGED <<moreRest, now, chatCache, req, download>>

\* if time.Since(su.lastSent) < 500ms { time.Sleep(500ms - time.Since(...)) }:
\* the Edit goes on once 500 ms have passed since lastSent.
EditSleep(p) ==
    /\ updater.at[p] = "Sleep"
    /\ now - updater.lastSent >= EditGap
    /\ updater' = [updater EXCEPT !.at[p] = "Edit"]
    /\ UNCHANGED <<moreRest, now, chatCache, req, download>>

\* su.NewMessage.Edit(text, opts...): the platform edits the message, or
\* fails.
EditCall(p, ok) ==
    /\ updater.at[p] = "Edit"
    /\ updater' = [updater EXCEPT
                      !.at[p] = "update", !.ok[p] = ok,
                      !.edited = IF ok
                                 THEN [live |-> TRUE, at |-> now,
                                       text |-> updater.text[p],
                                       gap |-> IF @.live THEN now - @.at ELSE NoGap]
                                 ELSE @]
    /\ UNCHANGED <<moreRest, now, chatCache, req, download>>

\* if err == nil { su.lastMessage = text; su.lastSent = time.Now() }, and
\* the deferred Unlock.
EditReturn(p) ==
    /\ updater.at[p] = "update"
    /\ updater' = [updater EXCEPT
                      !.mu = "none", !.at[p] = "idle", !.ok[p] = FALSE,
                      !.lastMessage = IF updater.ok[p] THEN updater.text[p] ELSE @,
                      !.lastSent = IF updater.ok[p] THEN now ELSE @]
    /\ UNCHANGED <<moreRest, now, chatCache, req, download>>

\* A quarter of a second passes.
EditTick ==
    /\ now < MaxEditTime
    /\ now' = now + 1
    /\ UNCHANGED <<moreRest, moreVars>>

\* --------------------------------------------------------- DownloadFile

\* Neither fileName nor fileName + ".part" exists. partWriters and
\* finalWriters are the goroutines whose io.Copy writes to the file that
\* has the name now; at and out are each goroutine's position and result.
NoDownload == [partExists |-> FALSE, partWriters |-> {},
               finalExists |-> FALSE, finalWriters |-> {},
               at |-> [p \in Procs |-> "idle"], out |-> [p \in Procs |-> "none"]]

\* DownloadFile(ctx, url, fileName, overwrite) up to the temp file: a
\* request that fails or is not answered with 200 is an error; without
\* overwrite a fileName that exists is returned as it is.
DownloadFile(p, overwrite, resp) ==
    /\ download.at[p] \in {"idle", "ret"}
    /\ IF resp = "failed"
       THEN download' = [download EXCEPT !.at[p] = "ret", !.out[p] = "error"]
       ELSE IF ~overwrite /\ download.finalExists
       THEN download' = [download EXCEPT !.at[p] = "ret", !.out[p] = "exists"]
       ELSE download' = [download EXCEPT !.at[p] = "Create", !.out[p] = "none"]
    /\ UNCHANGED <<moreRest, now, chatCache, req, updater>>

\* writeToFile: os.Create(tempPath) makes the file or truncates the one
\* that has the name.
writeToFileCreate(p) ==
    /\ download.at[p] = "Create"
    /\ download' = [download EXCEPT !.at[p] = "Copy", !.partExists = TRUE,
                                    !.partWriters = @ \cup {p}]
    /\ UNCHANGED <<moreRest, now, chatCache, req, updater>>

\* writeToFile: io.Copy(out, data) ends and out is closed.
writeToFileCopy(p, copy) ==
    /\ download.at[p] = "Copy"
    /\ download' = [download EXCEPT
                       !.partWriters = @ \ {p}, !.finalWriters = @ \ {p},
                       !.at[p] = IF copy = "ok" THEN "Rename" ELSE "ret",
                       !.out[p] = IF copy = "ok" THEN "none" ELSE "error"]
    /\ UNCHANGED <<moreRest, now, chatCache, req, updater>>

\* os.Rename(tempPath, fileName): the file named tempPath, with whoever
\* still writes to it, takes the final name.
DownloadFileRename(p) ==
    /\ download.at[p] = "Rename"
    /\ IF download.partExists
       THEN download' = [download EXCEPT
                           !.finalExists = TRUE,
                           !.finalWriters = download.partWriters,
                           !.partExists = FALSE, !.partWriters = {},
                           !.at[p] = "ret", !.out[p] = "final"]
       ELSE download' = [download EXCEPT !.at[p] = "ret", !.out[p] = "error"]
    /\ UNCHANGED <<moreRest, now, chatCache, req, updater>>

\* ------------------------------------------------------- specifications

NoEngine == [cur |-> NoOid, path |-> NoPath, start |-> 0, ended |-> FALSE]

InitPlayback ==
    /\ present = FALSE
    /\ active = FALSE
    /\ queue = <<>>
    /\ files = {}
    /\ engine = NoEngine
    /\ pc = [p \in Procs |-> "idle"]
    /\ loc = [p \in Procs |-> NoLoc]
    /\ notice = [session |-> 0, sent |-> {}, twice |-> FALSE]
    /\ allocated = 0
    /\ data = [k \in Keys |-> NoItem]
    /\ now = 0
    /\ lastSet = [k \in Keys |-> NoSet]
    /\ reads = [p \in Procs |-> NoRead]
    /\ adminExpiration = 0
    /\ lookup = [p \in Procs |-> NoLookup]
    /\ lastRead = NoList
    /\ failed = NoFailure
    /\ assistant = ""
    /\ settingsCache = NoChat
    /\ bound = ""
    /\ lastWrite = NoWrite
    /\ membership = [a \in Assistants |-> NoStatus]
    /\ lastEvent = NoEvent
    /\ pm = NoPlayMedia
    /\ chatCache = [c \in Chats |-> NoChatData]
    /\ req = NoRequest
    /\ updater = NoUpdater
    /\ download = NoDownload

\* The chat's settings let everyone play, the bot is an administrator of
\* the chat and the roster is cached.
OpenSettings ==
    /\ play_mode = "everyone"
    /\ admin_mode = "everyone"
    /\ authUsers = {}
    /\ roster = {}
    /\ botStatus = "admin"
    /\ adminCache = [users |-> {}, bot |-> "admin"]

\* The steps inside the handlers of play (text or URL), skip and stop and
\* inside the stream-end callback.
Playback(p) ==
    \/ playMode(p)
    \/ handleUrl(p)
    \/ handleSingleTrack(p)
    \/ handleSingleTrackQueue(p)
    \/ handleSingleTrackDownload(p)
    \/ handleSingleTrackSetActive(p)
    \/ handleSingleTrackAdd(p)
    \/ handleMultipleTracks(p)
    \/ handleMultipleTracksAdd(p)
    \/ skipHandler(p)
    \/ stopHandler(p)
    \/ PlayNext(p)
    \/ PlayNextSetLoop(p)
    \/ PlayNextCurrent(p)
    \/ PlayNextUpcoming(p)
    \/ PlayNextPop(p)
    \/ PlayNextPopLast(p)
    \/ playSong(p)
    \/ PlayMediaJoin(p)
    \/ PlayMediaPlay(p)
    \/ Stop(p)
    \/ StopCall(p)
    \/ handleNoSong(p)
    \/ Return(p)

\* Handlers on goroutines that run concurrently.
Init ==
    /\ InitPlayback
    /\ limit = MaxTracks
    /\ OpenSettings

Next ==
    \E p \in Procs :
        \/ PlayCommand(p, "ua")
        \/ handlePlay(p, {"url"}, Playlists)
        \/ OnStreamEnd(p)
        \/ SkipCommand(p)
        \/ StopCommand(p)
        \/ Playback(p)

Spec == Init /\ [][Next]_vars

\* Handlers that run one at a time.
LoopArgs == {-1} \cup 0..MaxLoopArg \cup {LoopMax + 1}

InitSeq ==
    /\ InitPlayback
    /\ limit = MaxSeqTracks
    /\ OpenSettings

NextSeq ==
    \/ PlayCommand("g1", "ua")
    \/ handlePlay("g1", {"url", "media"}, Playlists)
    \/ handleMedia("g1")
    \/ handleMediaActive("g1")
    \/ OnStreamEnd("g1")
    \/ SkipCommand("g1")
    \/ StopCommand("g1")
    \/ \E n \in LoopArgs : LoopCommand("g1", n)
    \/ loopHandler("g1")
    \/ loopHandlerSet("g1")
    \/ Playback("g1")

SpecSeq == InitSeq /\ [][NextSeq]_vars

\* Play requests, skips by command and by the keyboard's button, stops and
\* stream ends, one at a time.
NextCallback ==
    \/ PlayCommand("g1", "ua")
    \/ handlePlay("g1", {"url"}, Playlists)
    \/ OnStreamEnd("g1")
    \/ SkipCommand("g1")
    \/ StopCommand("g1")
    \/ PlaySkipCallback("g1")
    \/ playCallbackHandler("g1")
    \/ playCallbackHandlerSkip("g1")
    \/ Playback("g1")

SpecCallback == InitSeq /\ [][NextCallback]_vars

\* The play filter under every setting of the chat, with a cold roster
\* cache whose entry may leave it at any time; play requests for one track.
InitFilter ==
    /\ InitPlayback
    /\ limit = MaxTracks
    /\ play_mode \in Modes
    /\ admin_mode \in AdminModes
    /\ authUsers \in SUBSET Users
    /\ roster \in SUBSET Users
    /\ botStatus \in BotStates
    /\ adminCache = NoEntry

NextFilter ==
    \/ \E u \in Users : PlayCommand("g1", u)
    \/ playMode("g1")
    \/ playModeUser("g1")
    \/ \E u \in Users : AdminCommand("g1", u)
    \/ adminMode("g1")
    \/ adminModeUser("g1")
    \/ stopHandler("g1")
    \/ Stop("g1")
    \/ StopCall("g1")
    \/ ClearAdminCache
    \/ handlePlay("g1", {"url"}, {})
    \/ handleUrl("g1")
    \/ handleSingleTrack("g1")
    \/ handleSingleTrackQueue("g1")
    \/ handleSingleTrackDownload("g1")
    \/ handleSingleTrackSetActive("g1")
    \/ handleSingleTrackAdd("g1")
    \/ PlayMediaJoin("g1")
    \/ PlayMediaPlay("g1")
    \/ Return("g1")

SpecFilter == InitFilter /\ [][NextFilter]_vars

\* A playlist that fills the queue of an idle chat to the cap.
LongPlaylist == [i \in 1..QueueCap |-> 1]

\* Play requests, one at a time, on a queue that a long playlist fills.
InitCap ==
    /\ InitPlayback
    /\ limit = MaxCapTracks
    /\ OpenSettings

NextCap ==
    \/ PlayCommand("g1", "ua")
    \/ playMode("g1")
    \/ handlePlay("g1", {"url"}, {LongPlaylist})
    \/ handleUrl("g1")
    \/ handleSingleTrack("g1")
    \/ handleSingleTrackQueue("g1")
    \/ handleSingleTrackDownload("g1")
    \/ handleSingleTrackSetActive("g1")
    \/ handleSingleTrackAdd("g1")
    \/ handleMultipleTracks("g1")
    \/ handleMultipleTracksAdd("g1")
    \/ PlayNext("g1")
    \/ PlayNextSetLoop("g1")
    \/ PlayNextCurrent("g1")
    \/ PlayNextUpcoming("g1")
    \/ PlayNextPop("g1")
    \/ PlayNextPopLast("g1")
    \/ playSong("g1")
    \/ PlayMediaJoin("g1")
    \/ PlayMediaPlay("g1")
    \/ Stop("g1")
    \/ StopCall("g1")
    \/ handleNoSong("g1")
    \/ Return("g1")

SpecCap == InitCap /\ [][NextCap]_vars

\* Two chats whose handlers run one at a time.
NextChats ==
    \/ \E c \in Chats, id \in SharedIDs : PlayIn(c, id)
    \/ \E c \in Chats : PlayNextIn(c)
    \/ \E c \in Chats : StopIn(c)

SpecChats == InitSeq /\ [][NextChats]_vars

\* Catalog calls, one at a time.
NextCatalog ==
    \/ \E call \in CatalogCalls : CatalogCall(call)
    \/ sendRequestSleep
    \/ \E o \in Outcomes : sendRequestDo(o)
    \/ \E o \in Outcomes : SearchDo(o)
    \/ \E decode \in {"ok", "failed"} : CatalogReturn(decode)

SpecCatalog == InitSeq /\ [][NextCatalog]_vars

\* Edits of one status message that goroutines ask for concurrently.
NextEdit ==
    \/ \E p \in Procs, text \in Texts : EditRequest(p, text)
    \/ \E p \in Procs : EditLock(p)
    \/ \E p \in Procs : EditCheck(p)
    \/ \E p \in Procs : EditSleep(p)
    \/ \E p \in Procs, ok \in BOOLEAN : EditCall(p, ok)
    \/ \E p \in Procs : EditReturn(p)
    \/ EditTick

SpecEdit == InitSeq /\ [][NextEdit]_vars

\* Direct downloads of one URL on two goroutines.
NextDownload ==
    \/ \E p \in Procs, overwrite \in BOOLEAN, resp \in {"ok", "failed"} :
           DownloadFile(p, overwrite, resp)
    \/ \E p \in Procs : writeToFileCreate(p)
    \/ \E p \in Procs, copy \in {"ok", "failed"} : writeToFileCopy(p, copy)
    \/ \E p \in Procs : DownloadFileRename(p)

SpecDownload == InitSeq /\ [][NextDownload]_vars

\* The same play requests with one more track to allocate.
InitOver ==
    /\ InitPlayback
    /\ limit = MaxOverTracks
    /\ OpenSettings

SpecOver == InitOver /\ [][NextCap]_vars

\* A TTL cache that goroutines read and write concurrently.
TTLs == 1..MaxTTL

InitCache ==
    /\ InitPlayback
    /\ limit = MaxTracks
    /\ OpenSettings

NextCache ==
    \/ \E k \in Keys, v \in Values : Set(k, v)
    \/ \E k \in Keys, v \in Values, ttl \in TTLs : SetWithTTL(k, v, ttl)
    \/ \E k \in Keys : Delete(k)
    \/ Clear
    \/ \E p \in Procs, k \in Keys : Get(p, k)
    \/ \E p \in Procs : GetCheck(p)
    \/ Tick

SpecCache == InitCache /\ [][NextCache]_vars

\* Roster lookups of two goroutines on a cold AdminCache, with fetches
\* that fail, invalidations and the clock.
Entries == {"GetAdmins", "GetUserAdmin"}
Answers == {"ok", "err"}

InitRoster ==
    /\ InitPlayback
    /\ limit = MaxTracks
    /\ play_mode = "everyone"
    /\ admin_mode = "everyone"
    /\ authUsers = {}
    /\ roster \in SUBSET Users
    /\ botStatus = "admin"
    /\ adminCache = NoEntry

NextRoster ==
    \/ \E p \in Procs, entry \in Entries, force \in BOOLEAN :
           RosterLookup(p, entry, force)
    \/ \E p \in Procs : GetAdminsGet(p)
    \/ \E p \in Procs, answer \in Answers : GetAdminsFetch(p, answer)
    \/ \E p \in Procs : GetAdminsSet(p)
    \/ \E p \in Procs : GetUserAdminNegative(p)
    \/ ClearAdminCacheEntry
    \/ RosterTick

SpecRoster == InitRoster /\ [][NextRoster]_vars

\* Calls of the settings store, one at a time, with a store that answers
\* every call, a cold ChatCache and a roster cache that is warm or cold;
\* one of the two users is an administrator of the chat.
InitSettings ==
    /\ InitPlayback
    /\ limit = MaxTracks
    /\ play_mode = "everyone"
    /\ admin_mode = "everyone"
    /\ authUsers = {}
    /\ roster = {"ua"}
    /\ botStatus = "admin"
    /\ adminCache \in {NoEntry, [users |-> roster, bot |-> botStatus]}

NextSettings ==
    \/ ReadSetting("ok")
    \/ \E mode \in Modes : SetPlayMode(mode, "ok")
    \/ \E mode \in Modes : SetAdminMode(mode, "ok")
    \/ RemoveAssistant("ok")
    \/ \E newClient \in Assistants : GetGroupAssistant("ok", "ok", newClient)
    \/ \E u \in Users : AddAuthUser(u, "ok", "ok")
    \/ \E u \in Users : RemoveAuthUser(u, "ok", "ok")
    \/ GetAllChats("ok")
    \/ SettingsTick

SpecSettings == InitSettings /\ [][NextSettings]_vars

\* PlayMedia calls, one at a time, while the settings cache is listed over
\* and expires and the store may fail a read or a write.
InitAssistant ==
    /\ InitPlayback
    /\ limit = MaxTracks
    /\ OpenSettings

NextAssistant ==
    \/ \E db \in DbAnswers, dbSet \in DbAnswers, newClient \in Assistants :
           PlayMediaAssistant(db, dbSet, newClient)
    \/ \E db \in DbAnswers, dbSet \in DbAnswers, newClient \in Assistants,
          member \in Statuses \cup {"unknown"} :
           checkUserStats(db, dbSet, newClient, member)
    \/ \E unban \in {"ok", "failed"} : joinAssistant(unban)
    \/ \E db \in DbAnswers, dbSet \in DbAnswers, newClient \in Assistants,
          outcome \in JoinOutcomes :
           joinUb(db, dbSet, newClient, outcome)
    \/ \E result \in {"played", "playFailed"} : PlayMediaCall(result)
    \/ GetAllChats("ok")
    \/ SettingsTick

SpecAssistant == InitAssistant /\ [][NextAssistant]_vars

\* Participant updates about the assistants, between PlayMedia calls that
\* look their status up, with a store that answers every call.
NextWatcher ==
    \/ \E a \in Assistants, o \in Statuses, n \in Statuses,
          newClient \in Assistants, msg \in {"sent", "failed"} :
           handleParticipant(a, o, n, newClient, msg)
    \/ \E newClient \in Assistants : PlayMediaAssistant("ok", "ok", newClient)
    \/ \E newClient \in Assistants, member \in Statuses \cup {"unknown"} :
           checkUserStats("ok", "ok", newClient, member)
    \/ \E unban \in {"ok", "failed"} : joinAssistant(unban)
    \/ \E newClient \in Assistants, outcome \in JoinOutcomes :
           joinUb("ok", "ok", newClient, outcome)
    \/ \E result \in {"played", "playFailed"} : PlayMediaCall(result)

SpecWatcher == InitAssistant /\ [][NextWatcher]_vars

\* Playlists, removes and seeks, one handler at a time.
RemoveArgs == 0..MaxRemoveArg
SeekArgs == {-1, 0, MinSeek - 1, MinSeek, MinSeek + 1}
PlayedTimes == 0..MaxPlayed
Durations == MinSeek..(MinSeek + MaxDurationOver)

InitControl ==
    /\ InitPlayback
    /\ limit = MaxControlTracks
    /\ OpenSettings

NextControl ==
    \/ PlayCommand("g1", "ua")
    \/ playMode("g1")
    \/ handlePlay("g1", {}, Playlists)
    \/ handleMultipleTracks("g1")
    \/ handleMultipleTracksAdd("g1")
    \/ \E n \in RemoveArgs : RemoveCommand("g1", n)
    \/ removeHandler("g1")
    \/ removeHandlerQueue("g1")
    \/ removeHandlerRemove("g1")
    \/ \E n \in SeekArgs : SeekCommand("g1", n)
    \/ seekHandler("g1")
    \/ seekHandlerTrack("g1", Durations, PlayedTimes)
    \/ PlayNext("g1")
    \/ PlayNextSetLoop("g1")
    \/ PlayNextCurrent("g1")
    \/ PlayNextUpcoming("g1")
    \/ PlayNextPop("g1")
    \/ PlayNextPopLast("g1")
    \/ playSong("g1")
    \/ PlayMediaJoin("g1")
    \/ PlayMediaPlay("g1")
    \/ Stop("g1")
    \/ StopCall("g1")
    \/ handleNoSong("g1")
    \/ Return("g1")

SpecControl == InitControl /\ [][NextControl]_vars

\* ------------------------------------------------------------- properties

\* The handlers that run PlayNext as an advance.
AdvanceOps == {"skip", "streamEnd"}

\* The allocations queued in q, in order.
Oids(q) == [i \in 1..Len(q) |-> q[i].oid]

\* q and r hold the same tracks in the same order (a FilePath may have been
\* written meanwhile).
SameTracks(q, r) ==
    /\ Len(q) = Len(r)
    /\ \A i \in 1..Len(q) :
         q[i].oid = r[i].oid /\ q[i].id = r[i].id /\ q[i].loop = r[i].loop

\* C1: in every reachable state, the states between the store calls of one
\* handler included, a chat that is active has at least one track queued.
ActiveHasTrack == IsActive => Len(queue) >= 1

\* C2: once a skip and a stream-end callback on the same chat have both
\* played a track and returned, and the chat is still active, the track
\* the engine was last given is the head of the queue.
SerializedAdvances ==
    ( /\ pc["g1"] = "ret" /\ pc["g2"] = "ret"
      /\ loc["g1"].op = "skip" /\ loc["g2"].op = "streamEnd"
      /\ loc["g1"].out = "played" /\ loc["g2"].out = "played"
      /\ IsActive )
    => /\ Len(queue) >= 1
       /\ engine.cur = queue[1].oid

\* C5: the chat gets the queue-finished notification of advances at most
\* once per playback session, also when a skip and a stream-end callback
\* arrive together.
QueueFinishedOnce == ~notice.twice

\* The handler that ran on goroutine g1 has returned and was one of ops.
Returned(ops) == pc["g1"] = "ret" /\ loc["g1"].op \in ops

\* The ways playSong ends once the track has a file: the track plays, the
\* "downloading" message cannot be sent, or the play start fails.
PlayOutcomes == {"played", "noticeFailed", "joinFailed", "playFailed"}

\* C3: an advance that runs alone on a chat whose head has a local path
\* and loop_remaining n > 0 leaves the queue as it was but for the head's
\* loop_remaining, now n - 1, and (when the message is sent and the play
\* starts) calls play once, on that head and that path; an advance that
\* finds the head's loop_remaining 0 removes the head.
LoopReplaysHead ==
    LET l == loc["g1"] IN
    (Returned(AdvanceOps) /\ l.q0 # <<>> /\ l.q0[1].path # NoPath) =>
        IF l.q0[1].loop > 0
        THEN /\ l.out \in PlayOutcomes
             /\ l.out \in {"played", "noticeFailed"} =>
                    queue = [l.q0 EXCEPT ![1].loop = @ - 1]
             /\ l.out = "played" =>
                    /\ l.plays = 1
                    /\ engine.cur = l.q0[1].oid
                    /\ engine.path = l.q0[1].path
        ELSE \A i \in 1..Len(queue) : queue[i].oid # l.q0[1].oid

LoopReplayReached ==
    LET l == loc["g1"] IN
    /\ Returned({"streamEnd"})
    /\ Len(l.q0) >= 2
    /\ l.q0[1].loop >= 2
    /\ l.out = "played"
    /\ queue[1].loop = l.q0[1].loop - 1

\* C4: an advance that runs alone on a chat whose head has loop_remaining
\* 0 and whose queue has at least two tracks, all with a file to be had,
\* removes exactly the head, keeps the other tracks in order and (when the
\* message is sent and the play starts) calls play once, on the former
\* queue[1]; a play request that runs alone on an idle chat and resolves to
\* n >= 1 tracks leaves exactly these n tracks queued, in order, with one
\* play, on the first of them.
AdvancePromotesNext ==
    LET l == loc["g1"] IN
    /\ (Returned(AdvanceOps) /\ Len(l.q0) >= 2 /\ l.q0[1].loop = 0
            /\ l.dlFailed = {}) =>
           /\ l.out \in PlayOutcomes
           /\ l.out \in {"played", "noticeFailed"} => SameTracks(queue, Tail(l.q0))
           /\ l.out = "played" =>
                  /\ l.plays = 1
                  /\ engine.cur = l.q0[2].oid
                  /\ queue[1].oid = engine.cur
    /\ (Returned({"play"}) /\ ~l.a0 /\ l.asked # <<>> /\ l.dlFailed = {}) =>
           /\ l.out \in {"played", "noticeFailed"} => Oids(queue) = l.asked
           /\ l.out = "played" =>
                  /\ l.plays = 1
                  /\ engine.cur = l.asked[1]

AdvancePromotedReached ==
    LET l == loc["g1"] IN
    /\ Returned(AdvanceOps)
    /\ Len(l.q0) >= 3
    /\ l.q0[1].loop = 0
    /\ l.out = "played"
    /\ l.dlFailed = {}
    /\ Len(queue) = Len(l.q0) - 1

\* C6: when an advance that runs alone pops the head and k >= 1 tracks in
\* a row then fail to materialize, exactly these k tracks leave the queue
\* besides the head, the tracks behind them stay in order and the first of
\* those is the one played; when every track behind the head fails, the
\* advance ends stopped and notified, with the chat inactive.
DeadTracksSkipped ==
    LET l == loc["g1"]
        k == Cardinality(l.dlFailed)
        n == Len(l.q0)
    IN (Returned(AdvanceOps) /\ l.q0 # <<>> /\ l.q0[1].loop = 0 /\ k > 0) =>
           /\ k <= n - 1
           /\ l.dlFailed = {l.q0[i].oid : i \in 2..(k + 1)}
           /\ l.out \in PlayOutcomes \cup {"finished"}
           /\ l.out \in {"played", "noticeFailed"} =>
                  /\ k + 2 <= n
                  /\ SameTracks(queue, SubSeq(l.q0, k + 2, n))
           /\ l.out = "played" =>
                  /\ l.plays = 1
                  /\ engine.cur = l.q0[k + 2].oid
           /\ l.out = "finished" <=> k = n - 1
           /\ l.out = "finished" =>
                  /\ ~IsActive
                  /\ queue = <<>>
                  /\ l.stops = 1
                  /\ engine = NoEngine

DeadTrackSkipReached ==
    LET l == loc["g1"] IN
    /\ Returned(AdvanceOps)
    /\ Len(l.q0) >= 3
    /\ Cardinality(l.dlFailed) = 1
    /\ l.out = "played"
    /\ Len(queue) = Len(l.q0) - 2

\* C7: when a play start fails, because joinAssistant or the engine's play
\* returns an error, the chat is inactive as PlayMedia returns.
PlayStartFailureDeactivates ==
    [][\A p \in Procs :
          (pc[p] \in {"PlayMedia", "pm_play"} /\ pc'[p] = "ret"
               /\ loc'[p].out \in {"joinFailed", "playFailed"})
          => ~IsActive']_vars

PlayStartFailed ==
    /\ pc["g1"] = "ret"
    /\ loc["g1"].out = "playFailed"
    /\ Len(loc["g1"].q0) >= 2
    /\ ~IsActive

\* C8: when an advance ends in a failure to start the track it tried to
\* play, the tracks that were queued behind that track are still queued,
\* in the same order.
TerminalFailureKeepsRest ==
    LET l == loc["g1"] IN
    (Returned(AdvanceOps) /\ l.out \in {"joinFailed", "playFailed"}
        /\ \E i \in 1..Len(l.q0) : l.q0[i].oid = l.song.oid) =>
        LET k == CHOOSE i \in 1..Len(l.q0) : l.q0[i].oid = l.song.oid
        IN SameTracks(queue, SubSeq(l.q0, k + 1, Len(l.q0)))

\* can_play for the sender, the play mode and the administrator list that
\* the filter of handler record l read (the list is empty when the lookup
\* failed).
CanPlay(l) ==
    \/ l.mode = "everyone"
    \/ l.user \in l.admins
    \/ l.mode = "auth" /\ (l.user \in l.admins \/ l.user \in authUsers)

\* C9: a play command whose sender can_play is false for gets exactly one
\* reply from the filter, and neither the engine nor the chat's queue,
\* active flag and loop counter change.
RefusedPlayGetsOneReply ==
    LET l == loc["g1"] IN
    (Returned({"play"}) /\ l.mode \in Modes /\ ~CanPlay(l)) =>
        /\ l.replies = 1
        /\ l.plays = 0
        /\ l.stops = 0
        /\ queue = l.q0
        /\ IsActive = l.a0

\* C10: once the bot-side prechecks have passed, the play filter admits
\* the sender exactly when can_play holds.
FilterAdmitsIffCanPlay ==
    LET l == loc["g1"] IN
    /\ pc["g1"] = "handlePlay" => CanPlay(l)
    /\ (Returned({"play"})
            /\ l.out \in {"rosterFailed", "filter_not_authorized_command"}) =>
           ~CanPlay(l)

\* can_admin for the sender and the admin mode that the filter of handler
\* record l read, against the chat's administrator roster.
CanAdmin(l) ==
    \/ l.mode = "everyone"
    \/ l.mode = "admins" /\ l.user \in roster
    \/ l.mode = "auth" /\ (l.user \in roster \/ l.user \in authUsers)

\* C11: once the bot-side prechecks have passed, the admin filter admits
\* the sender of a command exactly when can_admin holds: the mode is
\* everyone, or admins and the sender is in the administrator roster, or
\* auth and the sender is an administrator or an authorized user; under
\* any other mode nobody is admitted.
AdminFilterAdmitsIffCanAdmin ==
    LET l == loc["g1"] IN
    /\ (pc["g1"] = "stop_check" /\ l.mode \in AdminModes) => CanAdmin(l)
    /\ (Returned({"stop"})
            /\ l.out \in {"filter_not_admin", "filter_not_authorized"}) =>
           ~CanAdmin(l)

\* The replies that tell the chat the bot needs to be an administrator.
BotNeedsAdmin ==
    {"filter_bot_not_admin", "filter_bot_not_admin_reload",
     "filter_bot_no_invite_permission"}

\* C12: a command gets past the bot-side prechecks only if the roster
\* lists the bot as an administrator with the invite-users right (or as
\* the creator); a bot that the roster does not list, or lists without
\* that right, is refused with a bot-needs-admin reply, and that reply is
\* not the one sent when the roster lookup itself fails.
BotPrecheckReplies ==
    LET l == loc["g1"] IN
    /\ pc["g1"] \in {"pm_admins", "am_user"} => l.bot \in {"admin", "creator"}
    /\ (Returned({"play", "stop"}) /\ l.bot \in {"absent", "adminNoInvite"}) =>
           l.out \in BotNeedsAdmin
    /\ (Returned({"play", "stop"}) /\ l.bot = "unknown") =>
           l.out \notin BotNeedsAdmin

\* C13: no two entries of the chat's queue have the same track id, and a
\* play request that finds its track in the queue adds nothing and says
\* that the track is already queued.
NoDuplicateTracks ==
    /\ \A i, j \in 1..Len(queue) : queue[i].id = queue[j].id => i = j
    /\ (Returned({"play"}) /\ loc["g1"].out = "play_track_already_in_queue") =>
           queue = loc["g1"].q0

WithoutAt(q, k) == SubSeq(q, 1, k - 1) \o SubSeq(q, k + 1, Len(q))

\* C15: no remove command removes the head of the queue, whatever number
\* it names, and a remove command that names track 1 is refused and
\* leaves the queue as it was.
RemoveSparesHead ==
    LET l == loc["g1"] IN
    /\ (Returned({"remove"}) /\ l.q0 # <<>>) =>
           /\ queue # <<>>
           /\ queue[1] = l.q0[1]
    /\ (Returned({"remove"}) /\ l.a0 /\ l.trackNum = 1) =>
           /\ l.out # "remove_success"
           /\ queue = l.q0

\* C16: a remove command that names track k of a queue of L tracks, with
\* 2 <= k <= L, removes exactly the k-th track and keeps the others in
\* order; and a remove command that reports success has removed a track.
RemoveTakesNamedTrack ==
    LET l == loc["g1"] IN
    /\ (Returned({"remove"}) /\ l.a0
            /\ 2 <= l.trackNum /\ l.trackNum <= Len(l.q0)) =>
           /\ l.out = "remove_success"
           /\ queue = WithoutAt(l.q0, l.trackNum)
    /\ (Returned({"remove"}) /\ l.out = "remove_success") =>
           Len(queue) = Len(l.q0) - 1

\* C19: a seek by seekTime seconds on a playing track, the engine having
\* played `played` seconds of its `duration`, is refused exactly when
\* seekTime < 0 or played + seekTime >= duration, and leaves the engine and
\* the queue alone then; otherwise the engine is asked to play the track's
\* file from second played + seekTime.
SeekRefusedIffBeyond ==
    LET l == loc["g1"]
        k == l.seek
        beyond == k.seekTime < 0 \/ k.played + k.seekTime >= k.duration
    IN (Returned({"seek"})
           /\ l.out \notin {"no_track_playing", "seek_fetch_duration_error"}) =>
        IF beyond
        THEN /\ l.out \in {"seek_min_time", "seek_beyond_duration"}
             /\ l.plays = 0
             /\ queue = l.q0
        ELSE /\ l.out \in {"played", "joinFailed", "playFailed"}
             /\ k.toSeek = k.played + k.seekTime
             /\ l.out = "played" =>
                    /\ l.plays = 1
                    /\ engine.cur = l.q0[1].oid
                    /\ engine.path = l.q0[1].path
                    /\ engine.start = k.played + k.seekTime

\* C17: a loop command with a count outside 0..LoopMax is refused and
\* leaves the queue, every loop_remaining and the active flag as they
\* were; and in every reachable state the loop_remaining of every queued
\* track, the head's included, is within 0..LoopMax.
LoopCountInRange ==
    LET l == loc["g1"] IN
    /\ \A i \in 1..Len(queue) : queue[i].loop \in 0..LoopMax
    /\ (Returned({"loop"}) /\ (l.loop < 0 \/ l.loop > LoopMax)) =>
           /\ l.out \in {"loop_out_of_range", "no_track_playing"}
           /\ queue = l.q0
           /\ IsActive = l.a0

LoopOutOfRangeRefused ==
    LET l == loc["g1"] IN
    /\ Returned({"loop"})
    /\ l.loop > LoopMax
    /\ l.a0
    /\ Len(l.q0) >= 2
    /\ l.out = "loop_out_of_range"

GetReturnsLastSet ==
    [][\A p \in Procs :
          (reads[p].at = "check" /\ reads'[p].at = "done"
               /\ reads[p].seen.live
               /\ now - reads[p].seen.at < reads[p].seen.ttl)
          => /\ reads'[p].hit
             /\ reads'[p].Value = reads[p].seen.Value]_vars

GetAmongReadersReached ==
    /\ reads["g1"].at = "done"
    /\ reads["g1"].hit
    /\ reads["g1"].Value = 2
    /\ reads["g2"].at = "check"
    /\ reads["g2"].key = reads["g1"].key
    /\ reads["g2"].seen.live
    /\ reads["g2"].seen.Value = 2
    /\ now > reads["g2"].seen.at

\* C21: a Get that looks at the clock after the expiration time of the Set
\* it read (the time of the Set plus the TTL given to it) reports a miss, and
\* so does a Get that found the key never set, deleted or cleared.
ExpiredGetMisses ==
    [][\A p \in Procs :
          (reads[p].at = "check" /\ reads'[p].at = "done"
               /\ (~reads[p].seen.live
                     \/ now > reads[p].seen.at + reads[p].seen.ttl))
          => /\ ~reads'[p].hit
             /\ reads'[p].Value = 0]_vars

ExpiredGetMissReached ==
    \E k \in Keys :
        /\ data[k].ok
        /\ now > data[k].Expiration
        /\ reads["g1"] = [NoRead EXCEPT !.at = "done", !.key = k]
        /\ reads["g2"].at = "check"
        /\ reads["g2"].item = data[k]

\* C22: a non-forced roster read that returns a list while the window of
\* an earlier non-forced read is open (the entry that read was served from
\* has not expired, and nothing was invalidated or force-reloaded since)
\* returns the list the earlier read returned.
RosterReadsAgree ==
    [][\A p \in Procs :
          (lookup[p].at \in {"get", "set"} /\ lookup'[p].at = "done"
               /\ ~lookup[p].force
               /\ lastRead.live /\ now <= lastRead.until)
          => lookup'[p].admins = lastRead.admins]_vars

\* C23: a non-forced roster lookup that starts less than ten minutes after
\* a fetch of the chat's roster failed, with no invalidation since, is
\* answered from the cache with the empty list: it does not go on to ask
\* the platform, whichever of GetAdmins and GetUserAdmin made the failed
\* fetch.
FailedFetchIsCached ==
    [][\A p \in Procs :
          (lookup[p].at = "get" /\ lookup'[p].at # "get"
               /\ lookup[p].late
               /\ failed.live /\ now < failed.at + NegativeTTL)
          => /\ lookup'[p].at = "done"
             /\ lookup'[p].admins = NegativeRoster]_vars

\* C24: once AddAuthUser(c, u) has returned, IsAuthUser(c, u) is true, and
\* once RemoveAuthUser(c, u) has returned, IsAuthUser(c, u) is true exactly
\* when u is an administrator of the chat, whatever ChatCache held before
\* the call and however long ago the call was.
AuthRoundTrip ==
    /\ lastWrite.op = "AddAuthUser" => DatabaseIsAuthUser(lastWrite.user, "ok")
    /\ lastWrite.op = "RemoveAuthUser" =>
           (DatabaseIsAuthUser(lastWrite.user, "ok") <=> lastWrite.user \in roster)

\* C25: once getClientName has returned an assistant for the chat, every
\* later getClientName returns the same one until RemoveAssistant, whatever
\* settings are written, whatever expires and whenever GetAllChats runs.
AssistantSticks ==
    [][bound # "" => bound' \in {bound, ""}]_vars

\* C26: during one PlayMedia every assistant that GetGroupAssistant gives
\* (for PlayMedia itself, for checkUserStats and for joinUb) is the one the
\* call plays on, also when the store fails a read or a write.
OneAssistantPerPlayMedia ==
    pm.at # "idle" => pm.routed \subseteq {pm.call}

InChat == {"member", "admin", "creator"}

\* C27: when joinAssistant has returned nil in a PlayMedia that resolved
\* one assistant throughout, statusCache holds member, admin or creator for
\* that assistant, whatever the status it started from and whichever way
\* the join succeeded.
RecoveredIsInChat ==
    (pm.recovered /\ pm.routed = {pm.call}) => membership[pm.call] \in InChat

\* C28: after handleParticipant has handled an update about the chat's
\* assistant with the new status n, statusCache holds n for the assistant.
EventStatusIsCached ==
    lastEvent # NoEvent => membership[lastEvent.user] = lastEvent.status

\* C30: what a handler reads through ChatCache (play mode, admin mode,
\* assistant, auth users) is what the store holds for the chat, when the
\* store answers the read.
CacheReadsMatchStore ==
    /\ GetPlayMode("ok") = play_mode
    /\ GetAdminMode("ok") = admin_mode
    /\ GetAssistant("ok") = assistant
    /\ GetAuthUsers("ok") = authUsers

\* C29: when PlayNext drops the head of the queue (RemoveCurrentSong with
\* diskClear, on both of its paths) and the head has a FilePath, the queue
\* loses exactly its head and no file exists at that path afterwards.
PopReleasesFile ==
    [][\A p \in Procs :
          (pc[p] \in {"pn_pop", "pn_poplast"} /\ pc'[p] # pc[p]
               /\ present /\ queue # <<>> /\ queue[1].path # NoPath)
          => /\ queue' = Tail(queue)
             /\ queue[1].path \notin files']_vars

HeadFileReleased ==
    LET l == loc["g1"] IN
    /\ Returned(AdvanceOps)
    /\ Len(l.q0) >= 2
    /\ l.q0[1].loop = 0
    /\ l.q0[1].path \in 1..NumTrackIDs
    /\ l.q0[1].path \notin files
    /\ Len(queue) = Len(l.q0) - 1

\* C33: AddSong only appends to the queue: IsActive is the same before and
\* after it, so a chat that is not active, or that the store has no entry
\* for, is not active after the track is added.
AddSongKeepsActive ==
    [][Len(queue') = Len(queue) + 1 => (present' /\ active') = IsActive]_vars

\* C34: when call.Play fails for the track a press of the skip button
\* advanced to, PlayNext returns an error and the callback answers
\* "skip_fail", not "track_skipped".
FailedPlayFailsSkip ==
    (Returned({"cbSkip"}) /\ loc["g1"].out = "playFailed")
        => (loc["g1"].err = "err" /\ loc["g1"].reply = "skip_fail")

\* C35: of two play requests that overlap on an idle chat one starts the
\* playback and the other is queued behind it: the two are never both on
\* their way to the engine's play, and once both have returned, one having
\* played and the chat being active, the engine streams the head of the
\* queue.
OneIdleStart ==
    /\ ~(\A p \in Procs : loc[p].op = "play" /\ pc[p] \in {"PlayMedia", "pm_play"})
    /\ ( /\ \A p \in Procs : pc[p] = "ret" /\ loc[p].op = "play"
         /\ \E p \in Procs : loc[p].out = "played"
         /\ \A p \in Procs : loc[p].out \in {"played", "play_added_to_queue"}
         /\ IsActive )
       => /\ Len(queue) >= 1
          /\ engine.cur = queue[1].oid

\* C36: an advance that found the queue finished clears no track that a
\* play request put in the queue meanwhile and answered with its position:
\* when its Stop clears the chat, the queue is empty.
QueuedTrackSurvivesFinish ==
    [][\A p \in Procs :
          ( /\ pc[p] = "Stop" /\ loc[p].noSong /\ pc'[p] # "Stop"
            /\ \E q \in Procs \ {p} :
                  /\ pc[q] = "ret" /\ loc[q].op = "play"
                  /\ loc[q].out = "play_added_to_queue" )
          => GetQueueLength = 0]_vars

\* C37: whatever play requests are handled, the chat's queue never holds
\* more than QueueCap + 1 tracks.
QueueWithinCap == GetQueueLength <= QueueCap + 1

\* C38: while a chat is active, the file its head names as FilePath
\* exists, whatever another chat pops or clears.
HeadFileExists ==
    \A c \in Chats :
        LET chat == chatCache[c] IN
        (chat.present /\ chat.active /\ Len(chat.queue) >= 1
             /\ chat.queue[1].path # NoPath)
        => chat.queue[1].path \in files

\* An attempt that sendRequest follows with another one.
Retryable(o) == o.err = "temporary" \/ (o.err = "none" /\ o.status >= 500)

\* C31: a catalog call makes maxRetries HTTP attempts at most; once it has
\* its answer it has made a second attempt exactly if the first ended in a
\* temporary error or a 5xx, after a wait of initialBackoff; a response
\* with a status below 500 is the call's last attempt.
CatalogRetries ==
    LET n == Len(req.tries) IN
    /\ n <= maxRetries
    /\ req.at \in {"resp", "ret"} => (n = 2 <=> Retryable(req.tries[1]))
    /\ n = 2 => req.waited = <<initialBackoff>>
    /\ \A i \in 1..n :
         (req.tries[i].err = "none" /\ req.tries[i].status < 500)
         => (i = n /\ req.at \in {"resp", "ret"})

\* The text the platform shows: the text of the last successful edit, or of
\* the first reply while no edit has succeeded.
LastSentText == IF updater.edited.live THEN updater.edited.text ELSE 0

FinalFileIsComplete == download.finalExists => download.finalWriters = {}

====
